---- MODULE Spec2Model ----
(***************************************************************************)
(* Token lifecycle of the Feishu MCP gateway: the token store              *)
(* (TokenCacheManager), the status computation (checkUserTokenStatus /     *)
(* checkTenantTokenStatus), the on-demand providers                        *)
(* (TokenProvider.getUserToken, AuthService.getUserAccessToken) and the    *)
(* background sweep (TokenRefreshManager.checkAndRefreshTokens).           *)
(*                                                                         *)
(* Time: the clock is read at whole seconds.  `clock` is Date.now() and    *)
(* the cache entries' timestamp / expiresAt are millisecond values in the  *)
(* code; here they are kept divided by 1000, so that they fit the model    *)
(* checker's integers.  Token timestamps are unix seconds,                 *)
(* Math.floor(Date.now() / 1000).  A value 0 stands for a field that is    *)
(* absent (undefined / empty), which JavaScript treats as falsy like 0.    *)
(***************************************************************************)
EXTENDS Integers, Sequences, FiniteSets, TLC

\* ---------------------------------------------------------------- bounds
MaxTicks == 2
MaxIssue == 3
MaxPuts == 2
MaxExchanges == 1   \* codes the identity provider exchanges for the gateway
MaxTimers == 2      \* interval timers the runtime holds at a time
MaxLongTicks == 7   \* ticks of the clock while the scheduler is observed
MaxSessions == 2
MaxTasks == 2

\* ------------------------------------------------------ program constants
REFRESH_WINDOW        == 300        \* checkUserTokenStatus: timeToExpiry < 300
DEFAULT_EXPIRES_IN    == 7200       \* TokenProvider.refreshUserToken: now + 7200
INVALID_REFRESH_CODE  == 99991669   \* checkAndRefreshTokens: response.data.code
DEFAULT_REFRESH_TTL   == 3600 * 24 * 365        \* refreshTtl default (seconds)
DEFAULT_CACHE_TTL     == 2 * 60 * 60            \* cacheUserToken default, 2 hours

\* the clock advances on a grid that is a third of the refresh window, so
\* that the boundary timeToExpiry = 300 is met exactly
TickSeconds == REFRESH_WINDOW \div 3

\* the client keys and the on-demand requests (call chains) of the model;
\* each specification below says which of them it lets act
Keys     == {1, 2}
Requests == {1, 2}

USER_PREFIX   == "user_access_token:"
TENANT_PREFIX == "tenant_access_token:"
Prefixes  == {USER_PREFIX, TENANT_PREFIX}
CacheKeys == Prefixes \X Keys

\* "no entry" / null / undefined results
Null == [null |-> TRUE]

VARIABLES
  clock,                 \* Date.now(), in seconds
  cache,                 \* TokenCacheManager.cache : cache key -> CacheItem | Null
  cacheOrder,            \* insertion order of the Map's keys
  userTokenCacheFile,    \* content of user_token_cache.json
  tenantTokenCacheFile,  \* content of tenant_token_cache.json
  issued,                \* number of tokens the upstream has issued so far
  req,                   \* on-demand requests: position and locals of each
  sweep,                 \* the scheduler sweep: position and locals
  probe,                 \* the last status computation: its input and result
  hist,                  \* per key: the refresh attempts that overlapped (history)
  sessionToUserKey,      \* UserAuthManager.sessionToUserKey : sessionId -> userKey | 0
  sessionUserKeyMap,     \* the session map of the request-key module
  sse,                   \* SSEConnectionManager: transports, connections, timer
  conn,                  \* per sessionId: the state of its HTTP connection
  tasks,                 \* per asynchronous call chain: its AsyncLocalStorage store
  config,                \* Config.getInstance().feishu: authType, appId, appSecret
  isRunning,             \* TokenRefreshManager.isRunning
  intervalId,            \* TokenRefreshManager.intervalId : timer id | 0 for null
  timers                 \* the runtime's interval timers: timer id -> due time | 0

vars == <<clock, cache, cacheOrder, userTokenCacheFile, tenantTokenCacheFile,
          issued, req, sweep, probe, hist,
         sessionToUserKey, sessionUserKeyMap, sse, conn, tasks, config,
         isRunning, intervalId, timers>>

schedulerVars == <<isRunning, intervalId, timers>>

requestVars == <<tasks, config, schedulerVars>>

sessionVars == <<sessionToUserKey, sessionUserKeyMap, sse, conn>>

\* ------------------------------------------------------------------ time
\* Math.floor(Date.now() / 1000), of a clock read at a whole second
NowSeconds(ms) == ms

\* Math.max(0, x)
Max0(x) == IF x > 0 THEN x ELSE 0

\* ----------------------------------------------------------------- store
\* The store as one value, so that the methods of TokenCacheManager can be
\* written as operators from store to store.
Store == [cache |-> cache, order |-> cacheOrder,
          userFile |-> userTokenCacheFile, tenantFile |-> tenantTokenCacheFile]

SetStore(s) ==
  /\ cache' = s.cache
  /\ cacheOrder' = s.order
  /\ userTokenCacheFile' = s.userFile
  /\ tenantTokenCacheFile' = s.tenantFile

UnchangedStore ==
  UNCHANGED <<cache, cacheOrder, userTokenCacheFile, tenantTokenCacheFile>>

EmptyCache == [ck \in CacheKeys |-> Null]

RECURSIVE SeqWithout(_, _)
SeqWithout(s, x) ==
  IF s = <<>> THEN <<>>
  ELSE IF Head(s) = x THEN SeqWithout(Tail(s), x)
       ELSE <<Head(s)>> \o SeqWithout(Tail(s), x)

InSeq(s, x) == \E i \in 1..Len(s) : s[i] = x

\* Map.set: a new key goes to the end, an existing key keeps its place
MapSet(s, ck, item) ==
  [s EXCEPT !.cache = [@ EXCEPT ![ck] = item],
            !.order = IF InSeq(@, ck) THEN @ ELSE Append(@, ck)]

\* Map.delete
MapDelete(s, ck) ==
  [s EXCEPT !.cache = [@ EXCEPT ![ck] = Null],
            !.order = SeqWithout(@, ck)]

\* the entries of one namespace, as written to its snapshot file
Namespace(c, prefix) ==
  [ck \in CacheKeys |-> IF ck[1] = prefix THEN c[ck] ELSE Null]

saveUserTokenCache(s) == [s EXCEPT !.userFile = Namespace(s.cache, USER_PREFIX)]

saveTenantTokenCache(s) == [s EXCEPT !.tenantFile = Namespace(s.cache, TENANT_PREFIX)]

\* faulty variant: every record judged by its cache entry's expiry
getUserTokenInfo_CacheExpiryOnly(s, key, ms) ==
  LET ck   == <<USER_PREFIX, key>>
      item == s.cache[ck]
  IN  IF item = Null THEN [info |-> Null, store |-> s]
      ELSE IF ms > item.expiresAt
           THEN [info |-> Null, store |-> saveUserTokenCache(MapDelete(s, ck))]
           ELSE [info |-> item.data, store |-> s]

\* getUserTokenInfo(key): the record, or Null; a record whose refresh token
\* has expired - or, without refresh information, whose cache entry has
\* expired - is deleted on the way.
getUserTokenInfo(s, key, ms) ==
  LET ck   == <<USER_PREFIX, key>>
      item == s.cache[ck]
      now  == NowSeconds(ms)
  IN  IF item = Null THEN [info |-> Null, store |-> s]
      ELSE IF item.data.refresh_token # 0 /\ item.data.refresh_token_expires_at # 0
           THEN IF item.data.refresh_token_expires_at < now
                THEN [info |-> Null, store |-> saveUserTokenCache(MapDelete(s, ck))]
                ELSE [info |-> item.data, store |-> s]
           ELSE IF ms > item.expiresAt
                THEN [info |-> Null, store |-> saveUserTokenCache(MapDelete(s, ck))]
                ELSE [info |-> item.data, store |-> s]

\* getUserToken(key): the access token of the record, or 0 for null
getUserToken(s, key, ms) ==
  LET g == getUserTokenInfo(s, key, ms)
  IN  [token |-> IF g.info = Null THEN 0 ELSE g.info.access_token,
       store |-> g.store]

\* getTenantTokenInfo(key)
getTenantTokenInfo(s, key, ms) ==
  LET ck   == <<TENANT_PREFIX, key>>
      item == s.cache[ck]
  IN  IF item = Null THEN [info |-> Null, store |-> s]
      ELSE IF ms > item.expiresAt
           THEN [info |-> Null, store |-> saveTenantTokenCache(MapDelete(s, ck))]
           ELSE [info |-> item.data, store |-> s]

\* faulty variant: the access token's expiry preferred to the refresh token's
cacheUserToken_AccessExpiryFirst(s, key, tokenInfo, customTtl, ms) ==
  LET expiresAt ==
        IF customTtl # 0 THEN ms + customTtl
        ELSE IF tokenInfo.expires_at # 0 THEN tokenInfo.expires_at
        ELSE IF tokenInfo.refresh_token_expires_at # 0
             THEN tokenInfo.refresh_token_expires_at
        ELSE ms + DEFAULT_CACHE_TTL
      item == [data |-> tokenInfo, timestamp |-> ms, expiresAt |-> expiresAt]
  IN  saveUserTokenCache(MapSet(s, <<USER_PREFIX, key>>, item))

\* faulty variant: the refresh token's expiry not stored
cacheUserToken_DropsRefreshExpiry(s, key, tokenInfo, customTtl, ms) ==
  LET expiresAt ==
        IF customTtl # 0 THEN ms + customTtl
        ELSE IF tokenInfo.refresh_token_expires_at # 0
             THEN tokenInfo.refresh_token_expires_at
        ELSE IF tokenInfo.expires_at # 0 THEN tokenInfo.expires_at
        ELSE ms + DEFAULT_CACHE_TTL
      item == [data |-> [tokenInfo EXCEPT !.refresh_token_expires_at = 0],
               timestamp |-> ms, expiresAt |-> expiresAt]
  IN  saveUserTokenCache(MapSet(s, <<USER_PREFIX, key>>, item))

\* cacheUserToken(key, tokenInfo, customTtl?); customTtl = 0 when not given
cacheUserToken(s, key, tokenInfo, customTtl, ms) ==
  LET expiresAt ==
        IF customTtl # 0 THEN ms + customTtl
        ELSE IF tokenInfo.refresh_token_expires_at # 0
             THEN tokenInfo.refresh_token_expires_at
        ELSE IF tokenInfo.expires_at # 0 THEN tokenInfo.expires_at
        ELSE ms + DEFAULT_CACHE_TTL
      item == [data |-> tokenInfo, timestamp |-> ms, expiresAt |-> expiresAt]
  IN  saveUserTokenCache(MapSet(s, <<USER_PREFIX, key>>, item))

\* cacheTenantToken(key, tokenInfo, customTtl?)
cacheTenantToken(s, key, tokenInfo, customTtl, ms) ==
  LET expiresAt ==
        IF customTtl # 0 THEN ms + customTtl
        ELSE IF tokenInfo.expires_at # 0 THEN tokenInfo.expires_at
        ELSE ms + DEFAULT_CACHE_TTL
      item == [data |-> tokenInfo, timestamp |-> ms, expiresAt |-> expiresAt]
  IN  saveTenantTokenCache(MapSet(s, <<TENANT_PREFIX, key>>, item))

\* faulty variant: the file left as it was
removeUserToken_NoSave(s, key) ==
  LET ck == <<USER_PREFIX, key>>
  IN  IF s.cache[ck] = Null THEN s ELSE MapDelete(s, ck)

\* removeUserToken(key): the file is rewritten only if an entry was deleted
removeUserToken(s, key) ==
  LET ck == <<USER_PREFIX, key>>
  IN  IF s.cache[ck] = Null THEN s ELSE saveUserTokenCache(MapDelete(s, ck))

\* removeTenantToken(key)
removeTenantToken(s, key) ==
  LET ck == <<TENANT_PREFIX, key>>
  IN  IF s.cache[ck] = Null THEN s ELSE saveTenantTokenCache(MapDelete(s, ck))

\* the keys of one namespace that hold an entry
KeysOfNamespace(c, prefix) == {ck \in CacheKeys : ck[1] = prefix /\ c[ck] # Null}

\* Map.delete of every key of a set
RECURSIVE SeqWithoutAll(_, _)
SeqWithoutAll(s, X) ==
  IF s = <<>> THEN <<>>
  ELSE IF Head(s) \in X THEN SeqWithoutAll(Tail(s), X)
       ELSE <<Head(s)>> \o SeqWithoutAll(Tail(s), X)

MapDeleteAll(s, X) ==
  [s EXCEPT !.cache = [ck \in CacheKeys |-> IF ck \in X THEN Null ELSE @[ck]],
            !.order = SeqWithoutAll(@, X)]

\* clearUserTokens(): every user entry deleted, the file rewritten if any was
clearUserTokens(s) ==
  LET X == KeysOfNamespace(s.cache, USER_PREFIX)
  IN  [count |-> Cardinality(X),
       store |-> IF X = {} THEN s ELSE saveUserTokenCache(MapDeleteAll(s, X))]

\* faulty variant: the whole map cleared
clearTenantTokens_AllKeys(s) ==
  LET X == KeysOfNamespace(s.cache, TENANT_PREFIX)
      A == {ck \in CacheKeys : s.cache[ck] # Null}
  IN  [count |-> Cardinality(X),
       store |-> IF X = {} THEN s ELSE saveTenantTokenCache(MapDeleteAll(s, A))]

\* clearTenantTokens()
clearTenantTokens(s) ==
  LET X == KeysOfNamespace(s.cache, TENANT_PREFIX)
  IN  [count |-> Cardinality(X),
       store |-> IF X = {} THEN s ELSE saveTenantTokenCache(MapDeleteAll(s, X))]

\* cleanExpiredTokens, the test made on one entry
shouldDelete(ck, cacheItem, ms) ==
  IF ck[1] = USER_PREFIX
  THEN IF cacheItem.data.refresh_token # 0 /\ cacheItem.data.refresh_token_expires_at # 0
       THEN cacheItem.data.refresh_token_expires_at < NowSeconds(ms)
       ELSE cacheItem.expiresAt <= ms
  ELSE cacheItem.expiresAt <= ms

\* faulty variant: every entry judged by its cache expiry
cleanExpiredTokens_ByCacheExpiry(s, ms) ==
  LET keysToDelete == {ck \in CacheKeys : s.cache[ck] # Null /\ s.cache[ck].expiresAt <= ms}
      cleanedCount == Cardinality(keysToDelete)
      d            == MapDeleteAll(s, keysToDelete)
  IN  [count |-> cleanedCount,
       store |-> IF cleanedCount > 0
                 THEN saveTenantTokenCache(saveUserTokenCache(d)) ELSE d]

\* cleanExpiredTokens(): the entries to delete are collected, deleted, and
\* both files rewritten if any was deleted; returns their number
cleanExpiredTokens(s, ms) ==
  LET keysToDelete == {ck \in CacheKeys :
                          s.cache[ck] # Null /\ shouldDelete(ck, s.cache[ck], ms)}
      cleanedCount == Cardinality(keysToDelete)
      d            == MapDeleteAll(s, keysToDelete)
  IN  [count |-> cleanedCount,
       store |-> IF cleanedCount > 0
                 THEN saveTenantTokenCache(saveUserTokenCache(d)) ELSE d]

\* the keys of a sequence that carry a prefix, in their order
RECURSIVE SeqOfPrefix(_, _)
SeqOfPrefix(s, prefix) ==
  IF s = <<>> THEN <<>>
  ELSE IF Head(s)[1] = prefix THEN <<Head(s)>> \o SeqOfPrefix(Tail(s), prefix)
       ELSE SeqOfPrefix(Tail(s), prefix)

\* constructor: an empty map, into which loadTokenCaches() puts the user
\* entries of the user file and then the tenant entries of the tenant file.
\* A file lists its entries in the order the map had when it was written.
loadTokenCaches(userFile, tenantFile, fileOrder) ==
  [cache |-> [ck \in CacheKeys |->
                 IF ck[1] = USER_PREFIX THEN userFile[ck]
                 ELSE IF ck[1] = TENANT_PREFIX THEN tenantFile[ck] ELSE Null],
   order |-> SeqOfPrefix(fileOrder, USER_PREFIX) \o SeqOfPrefix(fileOrder, TENANT_PREFIX),
   userFile |-> userFile, tenantFile |-> tenantFile]

\* ---------------------------------------------------------------- status
NoTokenStatus ==
  [isValid |-> FALSE, isExpired |-> TRUE, canRefresh |-> FALSE, shouldRefresh |-> FALSE]

\* Faulty variants of the status computation; the properties below must tell
\* each of them from the code.
\* the window's upper end included
UserStatusOf_ClosedWindow(tokenInfo, ms) ==
  LET now          == NowSeconds(ms)
      isExpired    == IF tokenInfo.expires_at # 0 THEN tokenInfo.expires_at < now ELSE FALSE
      timeToExpiry == IF tokenInfo.expires_at # 0 THEN Max0(tokenInfo.expires_at - now) ELSE 0
      canRefresh   == /\ tokenInfo.refresh_token # 0
                      /\ tokenInfo.refresh_token_expires_at # 0
                      /\ tokenInfo.refresh_token_expires_at > now
      shouldRefresh == timeToExpiry > 0 /\ timeToExpiry <= REFRESH_WINDOW /\ canRefresh
  IN  [isValid |-> ~isExpired, isExpired |-> isExpired,
       canRefresh |-> canRefresh, shouldRefresh |-> shouldRefresh]

\* the refresh token's expiry ignored
UserStatusOf_AnyRefreshToken(tokenInfo, ms) ==
  LET now          == NowSeconds(ms)
      isExpired    == IF tokenInfo.expires_at # 0 THEN tokenInfo.expires_at < now ELSE FALSE
      timeToExpiry == IF tokenInfo.expires_at # 0 THEN Max0(tokenInfo.expires_at - now) ELSE 0
      canRefresh   == tokenInfo.refresh_token # 0
      shouldRefresh == timeToExpiry > 0 /\ timeToExpiry < REFRESH_WINDOW /\ canRefresh
  IN  [isValid |-> ~isExpired, isExpired |-> isExpired,
       canRefresh |-> canRefresh, shouldRefresh |-> shouldRefresh]

\* a record expiring at this very second counted as expired
UserStatusOf_ExpiredAtNow(tokenInfo, ms) ==
  LET now          == NowSeconds(ms)
      isExpired    == IF tokenInfo.expires_at # 0 THEN tokenInfo.expires_at <= now ELSE FALSE
      timeToExpiry == IF tokenInfo.expires_at # 0 THEN Max0(tokenInfo.expires_at - now) ELSE 0
      canRefresh   == /\ tokenInfo.refresh_token # 0
                      /\ tokenInfo.refresh_token_expires_at # 0
                      /\ tokenInfo.refresh_token_expires_at > now
      shouldRefresh == timeToExpiry > 0 /\ timeToExpiry < REFRESH_WINDOW /\ canRefresh
  IN  [isValid |-> ~isExpired, isExpired |-> isExpired,
       canRefresh |-> canRefresh, shouldRefresh |-> shouldRefresh]

\* the status of a record the store returned (lines 328-347)
UserStatusOf(tokenInfo, ms) ==
  LET now          == NowSeconds(ms)
      isExpired    == IF tokenInfo.expires_at # 0 THEN tokenInfo.expires_at < now ELSE FALSE
      timeToExpiry == IF tokenInfo.expires_at # 0 THEN Max0(tokenInfo.expires_at - now) ELSE 0
      canRefresh   == /\ tokenInfo.refresh_token # 0
                      /\ tokenInfo.refresh_token_expires_at # 0
                      /\ tokenInfo.refresh_token_expires_at > now
      shouldRefresh == timeToExpiry > 0 /\ timeToExpiry < REFRESH_WINDOW /\ canRefresh
  IN  [isValid |-> ~isExpired, isExpired |-> isExpired,
       canRefresh |-> canRefresh, shouldRefresh |-> shouldRefresh]

\* checkUserTokenStatus(key)
checkUserTokenStatus(s, key, ms) ==
  LET g == getUserTokenInfo(s, key, ms)
  IN  [status |-> IF g.info = Null THEN NoTokenStatus ELSE UserStatusOf(g.info, ms),
       store  |-> g.store]

\* faulty variant: a tenant record never due for a refresh
TenantStatusOf_NeverRefresh(tokenInfo, ms) ==
  LET now          == NowSeconds(ms)
      isExpired    == IF tokenInfo.expires_at # 0 THEN tokenInfo.expires_at < now ELSE FALSE
  IN  [isValid |-> ~isExpired, isExpired |-> isExpired,
       canRefresh |-> FALSE, shouldRefresh |-> FALSE]

\* the status of a tenant record the store returned (lines 367-379)
TenantStatusOf(tokenInfo, ms) ==
  LET now          == NowSeconds(ms)
      isExpired    == IF tokenInfo.expires_at # 0 THEN tokenInfo.expires_at < now ELSE FALSE
      timeToExpiry == IF tokenInfo.expires_at # 0 THEN Max0(tokenInfo.expires_at - now) ELSE 0
      shouldRefresh == timeToExpiry > 0 /\ timeToExpiry < REFRESH_WINDOW
  IN  [isValid |-> ~isExpired, isExpired |-> isExpired,
       canRefresh |-> FALSE, shouldRefresh |-> shouldRefresh]

\* checkTenantTokenStatus(key)
checkTenantTokenStatus(s, key, ms) ==
  LET g == getTenantTokenInfo(s, key, ms)
  IN  [status |-> IF g.info = Null THEN NoTokenStatus ELSE TenantStatusOf(g.info, ms),
       store  |-> g.store]

\* -------------------------------------------------------------- upstream
\* What the identity provider may answer to a token request: a token
\* response, a rejection of the refresh token (code 99991669), or a
\* transient failure (network error, 5xx).
\* A response without a refresh token carries no refresh token lifetime.
ExpiresInChoices        == {0, TickSeconds, 4 * TickSeconds}
RefreshExpiresInChoices == {0, 3 * TickSeconds}

TokenResponses(n) ==
  { [access_token |-> n, expires_in |-> e, refresh_token |-> n,
     refresh_token_expires_in |-> r] :
       e \in ExpiresInChoices, r \in RefreshExpiresInChoices }
  \cup
  { [access_token |-> n, expires_in |-> e, refresh_token |-> 0,
     refresh_token_expires_in |-> 0] : e \in ExpiresInChoices }

Outcomes(n) ==
  { [kind |-> "ok", data |-> d] : d \in TokenResponses(n) }
    \cup { [kind |-> "invalid"], [kind |-> "transient"] }

\* the errors refreshUserToken can end with, as the sweep's catch sees them:
\* error.response.data.code and whether error.message contains 'refresh_token'
ErrorOf(kind) ==
  CASE kind = "NoTokenInfo"         -> [kind |-> kind, code |-> 0, mentionsRefreshToken |-> FALSE]
    [] kind = "NoRefreshToken"      -> [kind |-> kind, code |-> 0, mentionsRefreshToken |-> TRUE]
    [] kind = "NoClient"            -> [kind |-> kind, code |-> 0, mentionsRefreshToken |-> FALSE]
    [] kind = "RefreshFailed"       -> [kind |-> kind, code |-> 0, mentionsRefreshToken |-> FALSE]
    [] kind = "InvalidRefreshToken" -> [kind |-> kind, code |-> INVALID_REFRESH_CODE,
                                        mentionsRefreshToken |-> FALSE]
    [] kind = "Network"             -> [kind |-> kind, code |-> 0, mentionsRefreshToken |-> FALSE]

NoError == [kind |-> "none", code |-> 0, mentionsRefreshToken |-> FALSE]

\* ------------------------------------------------------------ AuthService
NoCall == [refresh_token |-> 0, client_id |-> 0, client_secret |-> 0]

\* refreshUserToken(clientKey, appId, appSecret) up to the upstream call
\* (lines 63-100): the request body, or the error thrown before any call
refreshUserTokenBegin(s, clientKey, appId, appSecret, ms) ==
  LET g == getUserTokenInfo(s, clientKey, ms)
  IN  IF g.info = Null
      THEN [error |-> ErrorOf("NoTokenInfo"), call |-> NoCall, store |-> g.store]
      ELSE LET actualRefreshToken == g.info.refresh_token
               actualAppId     == IF g.info.client_id # 0 THEN g.info.client_id ELSE appId
               actualAppSecret == IF g.info.client_secret # 0 THEN g.info.client_secret ELSE appSecret
           IN  IF actualRefreshToken = 0
               THEN [error |-> ErrorOf("NoRefreshToken"), call |-> NoCall, store |-> g.store]
               ELSE IF actualAppId = 0 \/ actualAppSecret = 0
               THEN [error |-> ErrorOf("NoClient"), call |-> NoCall, store |-> g.store]
               ELSE [error |-> NoError,
                     call  |-> [refresh_token |-> actualRefreshToken,
                                client_id |-> actualAppId,
                                client_secret |-> actualAppSecret],
                     store |-> g.store]

\* the record refreshUserToken caches: the response data itself, with the
\* computed timestamps and the client id and secret (lines 103-112)
RefreshedData(data, call, ms) ==
  [access_token  |-> data.access_token,
   refresh_token |-> data.refresh_token,
   expires_at    |-> NowSeconds(ms) + data.expires_in,
   refresh_token_expires_at |->
       IF data.refresh_token_expires_in # 0
       THEN NowSeconds(ms) + data.refresh_token_expires_in ELSE 0,
   client_id     |-> call.client_id,
   client_secret |-> call.client_secret,
   generated_token |-> 0]

\* refreshUserToken from the answer of the upstream call on (lines 101-123)
refreshUserTokenEnd(s, clientKey, call, outcome, ms) ==
  IF outcome.kind = "ok"
  THEN IF outcome.data.access_token # 0 /\ outcome.data.expires_in # 0
       THEN LET data == RefreshedData(outcome.data, call, ms)
                refreshTtl == IF outcome.data.refresh_token_expires_in # 0
                              THEN outcome.data.refresh_token_expires_in
                              ELSE DEFAULT_REFRESH_TTL
            IN  [error |-> NoError, data |-> data,
                 store |-> cacheUserToken(s, clientKey, data, refreshTtl, ms)]
       ELSE [error |-> ErrorOf("RefreshFailed"), data |-> Null, store |-> s]
  ELSE IF outcome.kind = "invalid"
  THEN [error |-> ErrorOf("InvalidRefreshToken"), data |-> Null, store |-> s]
  ELSE [error |-> ErrorOf("Network"), data |-> Null, store |-> s]

\* ---------------------------------------------------------- TokenProvider
\* the client of the upstream refresh endpoint that TokenProvider calls:
\* it answers { success, data } or { success: false, error }, or throws
UpstreamRefreshResult(outcome) ==
  IF outcome.kind = "ok"
  THEN [success |-> TRUE, data |-> outcome.data, threw |-> FALSE]
  ELSE [success |-> FALSE, data |-> Null, threw |-> outcome.kind = "transient"]

\* faulty variant: the old access token kept
UpdatedTokenInfo_OldAccessToken(tokenInfo, newTokenData, ms) ==
  [tokenInfo EXCEPT
     !.expires_at    = IF newTokenData.expires_in # 0
                       THEN NowSeconds(ms) + newTokenData.expires_in
                       ELSE NowSeconds(ms) + DEFAULT_EXPIRES_IN,
     !.refresh_token = IF newTokenData.refresh_token # 0
                       THEN newTokenData.refresh_token ELSE tokenInfo.refresh_token,
     !.refresh_token_expires_at =
                       IF newTokenData.refresh_token_expires_in # 0
                       THEN NowSeconds(ms) + newTokenData.refresh_token_expires_in
                       ELSE tokenInfo.refresh_token_expires_at]

\* the record TokenProvider.refreshUserToken caches (lines 143-152)
UpdatedTokenInfo(tokenInfo, newTokenData, ms) ==
  [tokenInfo EXCEPT
     !.access_token  = newTokenData.access_token,
     !.expires_at    = IF newTokenData.expires_in # 0
                       THEN NowSeconds(ms) + newTokenData.expires_in
                       ELSE NowSeconds(ms) + DEFAULT_EXPIRES_IN,
     !.refresh_token = IF newTokenData.refresh_token # 0
                       THEN newTokenData.refresh_token ELSE tokenInfo.refresh_token,
     !.refresh_token_expires_at =
                       IF newTokenData.refresh_token_expires_in # 0
                       THEN NowSeconds(ms) + newTokenData.refresh_token_expires_in
                       ELSE tokenInfo.refresh_token_expires_at]

\* --------------------------------------------------------------- requests
IdleReq == [pc |-> "idle", op |-> "none", key |-> 0,
            tokenInfo |-> Null, call |-> NoCall, result |-> Null]

Success(token) == [success |-> TRUE, token |-> token, error |-> "none"]
Failure(error) == [success |-> FALSE, token |-> 0, error |-> error]

Done(r, result) == [r EXCEPT !.pc = "done", !.result = result]

\* ------------------------------------------------------------------ sweep
\* idle, the sweep keeps the counts its last run logged; issuedAtStart
\* records how many tokens the upstream had issued when the run began
IdleSweep == [pc |-> "idle", keys |-> <<>>, key |-> 0, call |-> NoCall,
              checked |-> 0, refreshed |-> 0, failed |-> 0, issuedAtStart |-> 0]

\* the keys of all user token entries of the store, in the Map's order
RECURSIVE UserKeysOf(_)
UserKeysOf(order) ==
  IF order = <<>> THEN <<>>
  ELSE IF Head(order)[1] = USER_PREFIX
       THEN <<Head(order)[2]>> \o UserKeysOf(Tail(order))
       ELSE UserKeysOf(Tail(order))

getAllUserTokenKeys(s) == UserKeysOf(s.order)

\* faulty variant: every failed refresh taken for an invalid refresh token
isRefreshTokenInvalid_AnyError(error) == TRUE

\* the sweep's test on a failed refresh (line 128)
isRefreshTokenInvalid(error) ==
  error.code = INVALID_REFRESH_CODE \/ error.mentionsRefreshToken

\* faulty variant: every refreshable record refreshed
needsRefresh_WheneverRefreshable(status) == status.canRefresh

\* the sweep's test on a status (line 94)
needsRefresh(status) ==
  status.shouldRefresh \/ (status.canRefresh /\ status.isExpired)

\* the catch of a failed refresh (lines 123-132)
SweepCatch(s, clientKey, error) ==
  IF isRefreshTokenInvalid(error) THEN removeUserToken(s, clientKey) ELSE s

\* faulty variant: a record that cannot be refreshed is evicted
SkipKey_Evicts(s, clientKey) == removeUserToken(s, clientKey)

\* the sweep passes over a record that lacks a field needed to refresh it:
\* it is logged and counted, and the loop continues
SkipKey(s, clientKey) == s

\* the loop of checkAndRefreshTokens from its current key on, run until it
\* suspends at an upstream call or has gone through all keys
RECURSIVE SweepLoop(_, _, _)
SweepLoop(s, sw, ms) ==
  IF sw.keys = <<>>
  THEN [store |-> s, sweep |-> [sw EXCEPT !.pc = "idle", !.key = 0, !.call = NoCall]]
  ELSE
    LET clientKey == Head(sw.keys)
        sw1    == [sw EXCEPT !.keys = Tail(@), !.checked = @ + 1]
        failed == [sw1 EXCEPT !.failed = @ + 1]
        c      == checkUserTokenStatus(s, clientKey, ms)
    IN  IF needsRefresh(c.status)
        THEN LET g == getUserTokenInfo(c.store, clientKey, ms)
             IN  IF g.info = Null THEN SweepLoop(g.store, failed, ms)
                 ELSE IF g.info.refresh_token = 0
                      THEN SweepLoop(SkipKey(g.store, clientKey), failed, ms)
                 ELSE IF g.info.client_id = 0 \/ g.info.client_secret = 0
                      THEN SweepLoop(SkipKey(g.store, clientKey), failed, ms)
                 ELSE LET b == refreshUserTokenBegin(g.store, clientKey, 0, 0, ms)
                      IN  IF b.error.kind # "none"
                          THEN SweepLoop(SweepCatch(b.store, clientKey, b.error), failed, ms)
                          ELSE [store |-> b.store,
                                sweep |-> [sw1 EXCEPT !.pc = "await", !.key = clientKey,
                                                      !.call = b.call]]
        ELSE SweepLoop(c.store, sw1, ms)

\* ---------------------------------------------------------------- history
\* For each key, the episode of refresh attempts in flight: whether two
\* attempts overlapped, the access tokens written by the attempts that
\* succeeded, and whether nothing but these attempts touched the entry.
FreshHist == [overlap |-> FALSE, ok |-> {}, clean |-> TRUE]
DirtyHist == [overlap |-> FALSE, ok |-> {}, clean |-> FALSE]

InFlight(rq, sw, k) ==
  Cardinality({p \in Requests : rq[p].pc = "await" /\ rq[p].key = k})
    + (IF sw.pc = "await" /\ sw.key = k THEN 1 ELSE 0)

HistStep(swOk) ==
  hist' = [k \in Keys |->
    LET ck       == <<USER_PREFIX, k>>
        before   == {p \in Requests : req[p].pc = "await" /\ req[p].key = k}
        after    == {p \in Requests : req'[p].pc = "await" /\ req'[p].key = k}
        swBefore == sweep.pc = "await" /\ sweep.key = k
        swAfter  == sweep'.pc = "await" /\ sweep'.key = k
        started  == (after \ before # {}) \/ (swAfter /\ ~swBefore)
        doneReqs == before \ after
        swDone   == swBefore /\ ~swAfter
        finished == doneReqs # {} \/ swDone
        okNow    == { req'[p].result.token : p \in {q \in doneReqs : req'[q].result.success} }
                      \cup (IF swDone /\ swOk
                            THEN {cache'[ck].data.access_token} ELSE {})
        h1 == IF started /\ InFlight(req, sweep, k) = 0 THEN FreshHist
              ELSE IF started THEN [hist[k] EXCEPT !.overlap = TRUE]
              ELSE hist[k]
        h2 == [h1 EXCEPT !.ok = @ \cup okNow,
                         !.clean = @ /\ (cache'[ck] = cache[ck] \/ finished)]
    IN  IF ~h2.clean THEN DirtyHist
        ELSE IF InFlight(req', sweep', k) = 0 /\ ~h2.overlap THEN FreshHist
        ELSE h2]

HistUpdate == HistStep(FALSE)

\* --------------------------------------------------------------- sessions
\* Session ids and user keys are non-empty strings; 0 stands for the empty
\* string and for a missing value.
SessionIds == 1..MaxSessions

UserKeys == {1, 2}

\* the session id used as a user key
SessionAsKey(sessionId) == 100 + sessionId

NoSessions == [id \in SessionIds |-> 0]

\* the asynchronous call chains that can be alive at a time
Tasks == 1..MaxTasks

FreeTask == [state |-> "free", parent |-> 0, store |-> Null, scope |-> Null]

\* strings are sequences of characters; NoText is the empty string
NoText == <<>>

\* the interval timers the runtime can hold at a time
TimerIds == 1..MaxTimers

\* TokenRefreshManager as constructed: not running, no timer
InitScheduler ==
  /\ isRunning = FALSE
  /\ intervalId = 0
  /\ timers = [id \in TimerIds |-> 0]

\* the configuration of a deployment in user mode
DefaultConfig == [authType |-> "user", appId |-> <<"a">>, appSecret |-> <<"b">>]

InitSessions ==
  /\ config = DefaultConfig
  /\ sessionToUserKey = NoSessions
  /\ sessionUserKeyMap = NoSessions
  /\ sse = [transports |-> {}, connections |-> {}, keepAliveIntervalId |-> TRUE]
  /\ conn = [id \in SessionIds |-> "new"]
  /\ tasks = [t \in Tasks |-> FreeTask]
  /\ InitScheduler

\* UserAuthManager.createSession(sessionId, userKey)
createSession(m, sessionId, userKey) ==
  IF sessionId = 0 \/ userKey = 0
  THEN [result |-> FALSE, map |-> m]
  ELSE [result |-> TRUE, map |-> [m EXCEPT ![sessionId] = userKey]]

\* faulty variant: the user key of the session opened last
UserAuthManager_getUserKeyBySessionId_Latest(m, sessionId) ==
  IF sessionId = 0 \/ \A id \in DOMAIN m : m[id] = 0 THEN 0
  ELSE m[CHOOSE id \in DOMAIN m :
           m[id] # 0 /\ \A j \in DOMAIN m : m[j] # 0 => j <= id]

\* UserAuthManager.getUserKeyBySessionId(sessionId); 0 for null
UserAuthManager_getUserKeyBySessionId(m, sessionId) ==
  IF sessionId = 0 THEN 0 ELSE m[sessionId]

\* faulty variant: the mapping left in place
removeSession_KeepsMapping(m, sessionId) ==
  IF sessionId = 0 THEN [result |-> FALSE, map |-> m]
  ELSE IF m[sessionId] = 0 THEN [result |-> FALSE, map |-> m]
  ELSE [result |-> TRUE, map |-> m]

\* UserAuthManager.removeSession(sessionId)
removeSession(m, sessionId) ==
  IF sessionId = 0 THEN [result |-> FALSE, map |-> m]
  ELSE IF m[sessionId] = 0 THEN [result |-> FALSE, map |-> m]
  ELSE [result |-> TRUE, map |-> [m EXCEPT ![sessionId] = 0]]

\* bindSessionUserKey(sessionId, userKey)
bindSessionUserKey(m, sessionId, userKey) == [m EXCEPT ![sessionId] = userKey]

\* unbindSessionUserKey(sessionId)
unbindSessionUserKey(m, sessionId) ==
  [result |-> m[sessionId] # 0, map |-> [m EXCEPT ![sessionId] = 0]]

\* getUserKeyBySessionId(sessionId) of the request-key module; 0 for undefined
getUserKeyBySessionId(m, sessionId) == m[sessionId]

\* SSEConnectionManager.addConnection(sessionId, transport, req, res)
addConnection(s, sessionId) ==
  [s EXCEPT !.transports = @ \cup {sessionId}, !.connections = @ \cup {sessionId}]

\* SSEConnectionManager.removeConnection(sessionId); closing the transport
\* ends its response
removeConnection(s, c, sessionId) ==
  [sse  |-> [s EXCEPT !.transports = @ \ {sessionId}, !.connections = @ \ {sessionId}],
   conn |-> IF sessionId \in s.transports /\ c[sessionId] = "open"
            THEN [c EXCEPT ![sessionId] = "ended"] ELSE c]

\* removeConnection of each session of a set
RECURSIVE removeConnections(_, _, _)
removeConnections(s, c, ids) ==
  IF ids = {} THEN [sse |-> s, conn |-> c]
  ELSE LET id == CHOOSE x \in ids : TRUE
           r  == removeConnection(s, c, id)
       IN  removeConnections(r.sse, r.conn, ids \ {id})

\* ---------------------------------------------------------------- actions
StartSeconds == 10 * TickSeconds

Init ==
  /\ clock = StartSeconds
  /\ cache = EmptyCache
  /\ cacheOrder = <<>>
  /\ userTokenCacheFile = EmptyCache
  /\ tenantTokenCacheFile = EmptyCache
  /\ issued = 0
  /\ req = [p \in Requests |-> IdleReq]
  /\ sweep = IdleSweep
  /\ probe = Null
  /\ hist = [k \in Keys |-> FreshHist]
  /\ InitSessions

\* time passes
Tick ==
  /\ clock < StartSeconds + MaxTicks * TickSeconds
  /\ clock' = clock + TickSeconds
  /\ UNCHANGED <<requestVars, sessionVars, cache, cacheOrder, userTokenCacheFile, tenantTokenCacheFile,
                 issued, req, sweep, probe, hist>>

\* the upstream answers a request; an answer that carries tokens issues them
Answers(o) ==
  /\ o.kind = "ok" => issued < MaxIssue
  /\ issued' = IF o.kind = "ok" THEN issued + 1 ELSE issued

\* callback: the authorization code is exchanged and the answer cached under
\* the client key carried by the state parameter
callback(clientKey, data) ==
  /\ issued < MaxIssue
  /\ issued' = issued + 1
  /\ IF data.access_token # 0 /\ data.expires_in # 0
     THEN LET now == NowSeconds(clock)
              tokenInfo ==
                [access_token  |-> data.access_token,
                 refresh_token |-> data.refresh_token,
                 expires_at    |-> now + data.expires_in,
                 refresh_token_expires_at |->
                    IF data.refresh_token_expires_in # 0
                    THEN now + data.refresh_token_expires_in ELSE 0,
                 client_id |-> 0, client_secret |-> 0, generated_token |-> 0]
              refreshTtl == IF data.refresh_token_expires_in # 0
                            THEN data.refresh_token_expires_in ELSE DEFAULT_REFRESH_TTL
          IN  SetStore(cacheUserToken(Store, clientKey, tokenInfo, refreshTtl, clock))
     ELSE UnchangedStore
  /\ UNCHANGED <<requestVars, sessionVars, clock, req, sweep, probe>>
  /\ HistUpdate

\* TokenProvider.getUserToken(reqKey), up to its answer or to the upstream call
GetUserTokenStart(p, clientKey) ==
  /\ req[p].pc = "idle"
  /\ LET c  == checkUserTokenStatus(Store, clientKey, clock)
         t  == getUserToken(c.store, clientKey, clock)
         g  == getUserTokenInfo(c.store, clientKey, clock)
         r0 == [IdleReq EXCEPT !.op = "getUserToken", !.key = clientKey]
     IN  IF c.status.isValid /\ ~c.status.shouldRefresh /\ t.token # 0
         THEN /\ SetStore(t.store)
              /\ req' = [req EXCEPT ![p] = Done(r0, Success(t.token))]
         ELSE IF c.status.shouldRefresh /\ c.status.canRefresh
         THEN /\ SetStore(g.store)
              /\ IF g.info = Null \/ g.info.refresh_token = 0
                 THEN req' = [req EXCEPT ![p] = Done(r0, Failure("AuthRequired"))]
                 ELSE req' = [req EXCEPT ![p] =
                                [r0 EXCEPT !.pc = "await", !.tokenInfo = g.info,
                                           !.call = [NoCall EXCEPT !.refresh_token =
                                                        g.info.refresh_token]]]
         ELSE /\ SetStore(c.store)
              /\ req' = [req EXCEPT ![p] = Done(r0, Failure("AuthRequired"))]
  /\ UNCHANGED <<requestVars, sessionVars, clock, issued, sweep, probe>>
  /\ HistUpdate

\* TokenProvider.getUserToken from the answer of the upstream refresh on
GetUserTokenResume(p, outcome) ==
  /\ req[p].pc = "await" /\ req[p].op = "getUserToken"
  /\ Answers(outcome)
  /\ LET refreshResult == UpstreamRefreshResult(outcome)
     IN  IF refreshResult.success /\ refreshResult.data # Null
         THEN /\ SetStore(cacheUserToken(Store, req[p].key,
                     UpdatedTokenInfo(req[p].tokenInfo, refreshResult.data, clock), 0, clock))
              /\ req' = [req EXCEPT ![p] = Done(@, Success(refreshResult.data.access_token))]
         ELSE /\ UnchangedStore
              /\ req' = [req EXCEPT ![p] = Done(@, Failure("AuthRequired"))]
  /\ UNCHANGED <<requestVars, sessionVars, clock, sweep, probe>>
  /\ HistUpdate

\* faulty variant: a refresh only inside the window, not after expiry
GetUserAccessTokenStart_OnlyInWindow(p, clientKey, appId, appSecret) ==
  /\ req[p].pc = "idle"
  /\ LET c  == checkUserTokenStatus(Store, clientKey, clock)
         t  == getUserToken(c.store, clientKey, clock)
         b  == refreshUserTokenBegin(c.store, clientKey, appId, appSecret, clock)
         r0 == [IdleReq EXCEPT !.op = "getUserAccessToken", !.key = clientKey]
     IN  IF c.status.isValid /\ ~c.status.shouldRefresh /\ t.token # 0
         THEN /\ SetStore(t.store)
              /\ req' = [req EXCEPT ![p] = Done(r0, Success(t.token))]
         ELSE IF c.status.shouldRefresh /\ c.status.canRefresh
         THEN IF b.error.kind # "none"
              THEN /\ SetStore(removeUserToken(b.store, clientKey))
                   /\ req' = [req EXCEPT ![p] = Done(r0, Failure("AuthRequiredError"))]
              ELSE /\ SetStore(b.store)
                   /\ req' = [req EXCEPT ![p] = [r0 EXCEPT !.pc = "await", !.call = b.call]]
         ELSE /\ SetStore(c.store)
              /\ req' = [req EXCEPT ![p] = Done(r0, Failure("AuthRequiredError"))]
  /\ UNCHANGED <<requestVars, sessionVars, clock, issued, sweep, probe>>
  /\ HistUpdate

\* AuthService.getUserAccessToken(clientKey, appId, appSecret), up to its
\* answer or to the upstream call
GetUserAccessTokenStart(p, clientKey, appId, appSecret) ==
  /\ req[p].pc = "idle"
  /\ LET c  == checkUserTokenStatus(Store, clientKey, clock)
         t  == getUserToken(c.store, clientKey, clock)
         b  == refreshUserTokenBegin(c.store, clientKey, appId, appSecret, clock)
         r0 == [IdleReq EXCEPT !.op = "getUserAccessToken", !.key = clientKey]
     IN  IF c.status.isValid /\ ~c.status.shouldRefresh /\ t.token # 0
         THEN /\ SetStore(t.store)
              /\ req' = [req EXCEPT ![p] = Done(r0, Success(t.token))]
         ELSE IF c.status.canRefresh /\ (c.status.isExpired \/ c.status.shouldRefresh)
         THEN IF b.error.kind # "none"
              THEN /\ SetStore(removeUserToken(b.store, clientKey))
                   /\ req' = [req EXCEPT ![p] = Done(r0, Failure("AuthRequiredError"))]
              ELSE /\ SetStore(b.store)
                   /\ req' = [req EXCEPT ![p] = [r0 EXCEPT !.pc = "await", !.call = b.call]]
         ELSE /\ SetStore(c.store)
              /\ req' = [req EXCEPT ![p] = Done(r0, Failure("AuthRequiredError"))]
  /\ UNCHANGED <<requestVars, sessionVars, clock, issued, sweep, probe>>
  /\ HistUpdate

\* AuthService.getUserAccessToken from the answer of the upstream refresh on
GetUserAccessTokenResume(p, outcome) ==
  /\ req[p].pc = "await" /\ req[p].op = "getUserAccessToken"
  /\ Answers(outcome)
  /\ LET e == refreshUserTokenEnd(Store, req[p].key, req[p].call, outcome, clock)
     IN  IF e.error.kind = "none"
         THEN /\ SetStore(e.store)
              /\ req' = [req EXCEPT ![p] = Done(@, Success(e.data.access_token))]
         ELSE /\ SetStore(removeUserToken(e.store, req[p].key))
              /\ req' = [req EXCEPT ![p] = Done(@, Failure("AuthRequiredError"))]
  /\ UNCHANGED <<requestVars, sessionVars, clock, sweep, probe>>
  /\ HistUpdate

\* the caller takes the result
Respond(p) ==
  /\ req[p].pc = "done"
  /\ req' = [req EXCEPT ![p] = IdleReq]
  /\ UNCHANGED <<requestVars, sessionVars, clock, issued, sweep, probe>>
  /\ UnchangedStore
  /\ HistUpdate

\* checkAndRefreshTokens(), up to its end or to the first upstream call
checkAndRefreshTokens ==
  /\ sweep.pc = "idle"
  /\ LET sw0 == [IdleSweep EXCEPT !.pc = "loop", !.keys = getAllUserTokenKeys(Store),
                                   !.issuedAtStart = issued]
         run == SweepLoop(Store, sw0, clock)
     IN  /\ SetStore(run.store)
         /\ sweep' = run.sweep
  /\ UNCHANGED <<clock, issued, req>>
  /\ HistUpdate

SweepStart ==
  /\ checkAndRefreshTokens
  /\ UNCHANGED <<requestVars, sessionVars, probe>>

\* checkAndRefreshTokens() from the answer of an upstream refresh on, up to
\* its end or to the next upstream call
\* faulty variant: a refresh that fails ends the sweep
SweepResume_StopsAtFailure(outcome) ==
  /\ sweep.pc = "await"
  /\ Answers(outcome)
  /\ UNCHANGED <<requestVars, sessionVars, clock, req, probe>>
  /\ LET e   == refreshUserTokenEnd(Store, sweep.key, sweep.call, outcome, clock)
         sw1 == [sweep EXCEPT !.pc = "loop", !.key = 0, !.call = NoCall]
         run == IF e.error.kind = "none"
                THEN SweepLoop(e.store, [sw1 EXCEPT !.refreshed = @ + 1], clock)
                ELSE [store |-> SweepCatch(e.store, sweep.key, e.error),
                      sweep |-> [sw1 EXCEPT !.pc = "idle", !.failed = @ + 1]]
     IN  /\ SetStore(run.store)
         /\ sweep' = run.sweep
         /\ HistStep(e.error.kind = "none")

SweepResume(outcome) ==
  /\ sweep.pc = "await"
  /\ Answers(outcome)
  /\ UNCHANGED <<requestVars, sessionVars, clock, req, probe>>
  /\ LET e   == refreshUserTokenEnd(Store, sweep.key, sweep.call, outcome, clock)
         sw1 == [sweep EXCEPT !.pc = "loop", !.key = 0, !.call = NoCall]
         run == IF e.error.kind = "none"
                THEN SweepLoop(e.store, [sw1 EXCEPT !.refreshed = @ + 1], clock)
                ELSE SweepLoop(SweepCatch(e.store, sweep.key, e.error),
                               [sw1 EXCEPT !.failed = @ + 1], clock)
     IN  /\ SetStore(run.store)
         /\ sweep' = run.sweep
         /\ HistStep(e.error.kind = "none")

\* the steps of the system when the keys K are in use and the call chains R
\* serve requests; the configured application credentials are 1
APP_ID     == 1
APP_SECRET == 1

Steps(K, R) ==
  \/ Tick
  \/ \E k \in K : \E d \in TokenResponses(issued + 1) : callback(k, d)
  \/ \E p \in R, k \in K : GetUserTokenStart(p, k)
  \/ \E p \in R : \E o \in Outcomes(issued + 1) : GetUserTokenResume(p, o)
  \/ \E p \in R, k \in K : \E app \in {0, 1} :
        GetUserAccessTokenStart(p, k, app * APP_ID, app * APP_SECRET)
  \/ \E p \in R : \E o \in Outcomes(issued + 1) : GetUserAccessTokenResume(p, o)
  \/ \E p \in R : Respond(p)
  \/ SweepStart
  \/ \E o \in Outcomes(issued + 1) : SweepResume(o)

\* one key, one on-demand call chain and the scheduler
Next == Steps({1}, {1})

Spec == Init /\ [][Next]_vars

\* ------------------------------------------------ status computations
\* The status functions applied to stored records of every shape, at every
\* time: the records are written by cacheUserToken / cacheTenantToken at
\* the start, with and without a custom TTL.
ExpiresAtChoices ==
  {0, StartSeconds - 5, StartSeconds, StartSeconds + 2 * TickSeconds,
   StartSeconds + REFRESH_WINDOW - 1, StartSeconds + REFRESH_WINDOW,
   StartSeconds + REFRESH_WINDOW + 1}

RefreshExpiresAtChoices ==
  {0, StartSeconds - 1, StartSeconds, StartSeconds + 1, StartSeconds + 100 * TickSeconds}

CustomTtlChoices == {0, 3 * TickSeconds}

UserTokenInfos ==
  { [access_token |-> 1, refresh_token |-> rt, expires_at |-> e,
     refresh_token_expires_at |-> re,
     client_id |-> 0, client_secret |-> 0, generated_token |-> 0] :
       rt \in {0, 1}, e \in ExpiresAtChoices, re \in RefreshExpiresAtChoices }

TenantTokenInfos ==
  { [app_access_token |-> 1, expires_at |-> e] : e \in ExpiresAtChoices }

InitStatus ==
  /\ clock = StartSeconds
  /\ \E u \in UserTokenInfos, t \in TenantTokenInfos, ttl \in CustomTtlChoices :
        LET s0 == [cache |-> EmptyCache, order |-> <<>>,
                   userFile |-> EmptyCache, tenantFile |-> EmptyCache]
            s1 == cacheUserToken(s0, 1, u, ttl, StartSeconds)
            s2 == cacheTenantToken(s1, 1, t, ttl, StartSeconds)
        IN  /\ cache = s2.cache
            /\ cacheOrder = s2.order
            /\ userTokenCacheFile = s2.userFile
            /\ tenantTokenCacheFile = s2.tenantFile
  /\ issued = 1
  /\ req = [p \in Requests |-> IdleReq]
  /\ sweep = IdleSweep
  /\ probe = Null
  /\ hist = [k \in Keys |-> FreshHist]
  /\ InitSessions

\* checkUserTokenStatus(key) is called; the probe keeps the entry as it was
\* stored, what the store's get returned, and the status
CheckUserStatus(key) ==
  /\ LET c == checkUserTokenStatus(Store, key, clock)
         g == getUserTokenInfo(Store, key, clock)
     IN  /\ SetStore(c.store)
         /\ probe' = [op |-> "checkUserTokenStatus", key |-> key, now |-> NowSeconds(clock),
                      stored |-> cache[<<USER_PREFIX, key>>], info |-> g.info,
                      status |-> c.status]
  /\ UNCHANGED <<requestVars, sessionVars, clock, issued, req, sweep, hist>>

\* checkTenantTokenStatus(key) is called
CheckTenantStatus(key) ==
  /\ LET c == checkTenantTokenStatus(Store, key, clock)
         g == getTenantTokenInfo(Store, key, clock)
     IN  /\ SetStore(c.store)
         /\ probe' = [op |-> "checkTenantTokenStatus", key |-> key, now |-> NowSeconds(clock),
                      stored |-> cache[<<TENANT_PREFIX, key>>], info |-> g.info,
                      status |-> c.status]
  /\ UNCHANGED <<requestVars, sessionVars, clock, issued, req, sweep, hist>>

NextStatus ==
  \/ Tick
  \/ CheckUserStatus(1)
  \/ CheckTenantStatus(1)

SpecStatus == InitStatus /\ [][NextStatus]_vars

\* ------------------------------------------------------------- the store
\* The store's operations called in any order on the user and the tenant
\* namespace under the same keys, while time passes.  The probe keeps the
\* last call: its arguments and what it returned.
StoreKeys == {1}

StoreUserTokenInfos ==
  { [access_token |-> 1, refresh_token |-> rt, expires_at |-> e,
     refresh_token_expires_at |-> re,
     client_id |-> 0, client_secret |-> 0, generated_token |-> 0] :
       rt \in {0, 1},
       e  \in {0, StartSeconds + TickSeconds},
       re \in {0, StartSeconds + TickSeconds, StartSeconds + 2 * TickSeconds} }

StoreTenantTokenInfos ==
  { [app_access_token |-> 1, expires_at |-> e] : e \in {0, StartSeconds + TickSeconds} }

InitStore ==
  /\ clock = StartSeconds
  /\ cache = EmptyCache
  /\ cacheOrder = <<>>
  /\ userTokenCacheFile = EmptyCache
  /\ tenantTokenCacheFile = EmptyCache
  /\ issued = 0
  /\ req = [p \in Requests |-> IdleReq]
  /\ sweep = IdleSweep
  /\ probe = Null
  /\ hist = [k \in Keys |-> FreshHist]
  /\ InitSessions

Called(op, key, tokenInfo, customTtl, stored, result) ==
  probe' = [op |-> op, key |-> key, now |-> clock, tokenInfo |-> tokenInfo,
            customTtl |-> customTtl, stored |-> stored, result |-> result]

PutUser(key, tokenInfo, customTtl) ==
  /\ issued < MaxPuts
  /\ issued' = issued + 1
  /\ SetStore(cacheUserToken(Store, key, tokenInfo, customTtl, clock))
  /\ Called("cacheUserToken", key, tokenInfo, customTtl, Null, TRUE)
  /\ UNCHANGED <<requestVars, sessionVars, clock, req, sweep, hist>>

PutTenant(key, tokenInfo, customTtl) ==
  /\ issued < MaxPuts
  /\ issued' = issued + 1
  /\ SetStore(cacheTenantToken(Store, key, tokenInfo, customTtl, clock))
  /\ Called("cacheTenantToken", key, tokenInfo, customTtl, Null, TRUE)
  /\ UNCHANGED <<requestVars, sessionVars, clock, req, sweep, hist>>

GetUserInfo(key) ==
  /\ LET g == getUserTokenInfo(Store, key, clock)
     IN  /\ SetStore(g.store)
         /\ Called("getUserTokenInfo", key, Null, 0, cache[<<USER_PREFIX, key>>], g.info)
  /\ UNCHANGED <<requestVars, sessionVars, clock, issued, req, sweep, hist>>

GetUserToken(key) ==
  /\ LET g == getUserToken(Store, key, clock)
     IN  /\ SetStore(g.store)
         /\ Called("getUserToken", key, Null, 0, cache[<<USER_PREFIX, key>>], g.token)
  /\ UNCHANGED <<requestVars, sessionVars, clock, issued, req, sweep, hist>>

GetTenantInfo(key) ==
  /\ LET g == getTenantTokenInfo(Store, key, clock)
     IN  /\ SetStore(g.store)
         /\ Called("getTenantTokenInfo", key, Null, 0, cache[<<TENANT_PREFIX, key>>], g.info)
  /\ UNCHANGED <<requestVars, sessionVars, clock, issued, req, sweep, hist>>

RemoveUser(key) ==
  /\ SetStore(removeUserToken(Store, key))
  /\ Called("removeUserToken", key, Null, 0, Null, cache[<<USER_PREFIX, key>>] # Null)
  /\ UNCHANGED <<requestVars, sessionVars, clock, issued, req, sweep, hist>>

RemoveTenant(key) ==
  /\ SetStore(removeTenantToken(Store, key))
  /\ Called("removeTenantToken", key, Null, 0, Null, cache[<<TENANT_PREFIX, key>>] # Null)
  /\ UNCHANGED <<requestVars, sessionVars, clock, issued, req, sweep, hist>>

ClearUser ==
  /\ LET c == clearUserTokens(Store)
     IN  /\ SetStore(c.store)
         /\ Called("clearUserTokens", 0, Null, 0, Null, c.count)
  /\ UNCHANGED <<requestVars, sessionVars, clock, issued, req, sweep, hist>>

ClearTenant ==
  /\ LET c == clearTenantTokens(Store)
     IN  /\ SetStore(c.store)
         /\ Called("clearTenantTokens", 0, Null, 0, Null, c.count)
  /\ UNCHANGED <<requestVars, sessionVars, clock, issued, req, sweep, hist>>

Clean ==
  /\ LET c == cleanExpiredTokens(Store, clock)
     IN  /\ SetStore(c.store)
         /\ Called("cleanExpiredTokens", 0, Null, 0, Null, c.count)
  /\ UNCHANGED <<requestVars, sessionVars, clock, issued, req, sweep, hist>>

\* the process ends and a new one constructs its store from the files
Construct ==
  /\ SetStore(loadTokenCaches(userTokenCacheFile, tenantTokenCacheFile, cacheOrder))
  /\ Called("constructor", 0, Null, 0, Null, TRUE)
  /\ UNCHANGED <<requestVars, sessionVars, clock, issued, req, sweep, hist>>

\* what getUserTokenByCode resolves to: the upstream's JSON answer, or
\* something that is not an object
CodeResponses ==
  { [code |-> c, access_token |-> a, refresh_token |-> rt,
     expires_in |-> 4 * TickSeconds, refresh_token_expires_in |-> 3 * TickSeconds] :
       c \in {0, 1}, a \in {0, 1}, rt \in {0, 1} }
  \cup {Null}

\* the answer read as a UserTokenInfo: it has the token fields and none of the
\* fields the handlers compute (expires_at, refresh_token_expires_at)
AsUserTokenInfo(data) ==
  [access_token |-> data.access_token, refresh_token |-> data.refresh_token,
   expires_at |-> 0, refresh_token_expires_at |-> 0,
   client_id |-> 0, client_secret |-> 0, generated_token |-> 0]

\* callback of callbackService.ts: the authorization code is exchanged and the
\* answer cached as it came
callbackService(hasCode, clientKey, data, userInfoFails) ==
  /\ IF ~hasCode
     THEN /\ UnchangedStore
          /\ issued' = issued
          /\ Called("callback", clientKey, Null, 0, Null, FALSE)
     ELSE IF data = Null \/ data.code # 0 \/ data.access_token = 0
     THEN /\ UnchangedStore
          /\ issued' = issued
          /\ Called("callback", clientKey, Null, 0, Null, FALSE)
     ELSE /\ issued < MaxPuts
          /\ issued' = issued + 1
          /\ SetStore(cacheUserToken(Store, clientKey, AsUserTokenInfo(data), 0, clock))
          /\ Called("callback", clientKey, AsUserTokenInfo(data), 0, Null, ~userInfoFails)
  /\ UNCHANGED <<requestVars, sessionVars, clock, req, sweep, hist>>

StoreSteps(K) ==
  \/ Tick
  \/ \E k \in K, u \in StoreUserTokenInfos, ttl \in CustomTtlChoices : PutUser(k, u, ttl)
  \/ \E k \in K, t \in StoreTenantTokenInfos, ttl \in CustomTtlChoices : PutTenant(k, t, ttl)
  \/ \E k \in K : GetUserInfo(k)
  \/ \E k \in K : GetUserToken(k)
  \/ \E k \in K : GetTenantInfo(k)
  \/ \E k \in K : RemoveUser(k)
  \/ \E k \in K : RemoveTenant(k)
  \/ ClearUser
  \/ ClearTenant
  \/ Clean
  \/ Construct
  \/ \E k \in K : callbackService(FALSE, k, Null, FALSE)
  \/ \E k \in K, data \in CodeResponses, userInfoFails \in BOOLEAN :
        callbackService(TRUE, k, data, userInfoFails)

NextStore == StoreSteps(StoreKeys)

SpecStore == InitStore /\ [][NextStore]_vars

\* ------------------------------------------------------------- the server
\* The SSE endpoints of the HTTP server: connections are opened under fresh
\* session ids, are closed by their clients, and post messages.
tokenVars == <<clock, cache, cacheOrder, userTokenCacheFile, tenantTokenCacheFile,
               issued, req, sweep, hist>>

\* GET /sse: a transport with a fresh session id, the session mapping, the
\* connection, and the connect of a server to the transport
SseOpen(sessionId, userKeyParam, connects) ==
  /\ conn[sessionId] = "new"
  /\ LET userKey == IF userKeyParam = 0 THEN SessionAsKey(sessionId) ELSE userKeyParam
         created == createSession(sessionToUserKey, sessionId, userKey)
         added   == addConnection(sse, sessionId)
         opened  == [conn EXCEPT ![sessionId] = "open"]
     IN  IF connects
         THEN /\ sessionToUserKey' = created.map
              /\ sse' = added
              /\ conn' = opened
         ELSE LET removed == removeConnection(added, opened, sessionId)
              IN  /\ sessionToUserKey' = removeSession(created.map, sessionId).map
                  /\ sse' = removed.sse
                  /\ conn' = [removed.conn EXCEPT ![sessionId] = "ended"]
  /\ UNCHANGED <<requestVars, tokenVars, probe, sessionUserKeyMap>>

\* the response of an open connection ends
ResEnds(sessionId) ==
  /\ conn[sessionId] = "open"
  /\ conn' = [conn EXCEPT ![sessionId] = "ended"]
  /\ UNCHANGED <<requestVars, tokenVars, probe, sessionToUserKey, sessionUserKeyMap, sse>>

\* the client is gone: the request emits 'close', and the listener set by
\* addConnection runs
ReqClose(sessionId) ==
  /\ conn[sessionId] \in {"open", "ended"}
  /\ LET removed == removeConnection(sse, conn, sessionId)
     IN  /\ sse' = removed.sse
         /\ conn' = [removed.conn EXCEPT ![sessionId] = "closed"]
  /\ UNCHANGED <<requestVars, tokenVars, probe, sessionToUserKey, sessionUserKeyMap>>

\* the keep-alive timer fires: the connections whose response has ended are
\* removed, the others are written to
KeepAlive ==
  /\ sse.keepAliveIntervalId
  /\ LET removed == removeConnections(sse, conn,
                       {id \in sse.connections : conn[id] # "open"})
     IN  /\ sse' = removed.sse
         /\ conn' = removed.conn
  /\ UNCHANGED <<requestVars, tokenVars, probe, sessionToUserKey, sessionUserKeyMap>>

\* SSEConnectionManager.shutdown()
Shutdown ==
  /\ LET removed == removeConnections(sse, conn, sse.connections)
     IN  /\ sse' = [removed.sse EXCEPT !.keepAliveIntervalId = FALSE]
         /\ conn' = removed.conn
  /\ UNCHANGED <<requestVars, tokenVars, probe, sessionToUserKey, sessionUserKeyMap>>

\* POST /messages?sessionId=...: the user key of the session is looked up and
\* the message handed to the session's transport
PostMessages(sessionId) ==
  /\ LET userKey == UserAuthManager_getUserKeyBySessionId(sessionToUserKey, sessionId)
     IN  probe' = [op |-> "messages", key |-> sessionId, userKey |-> userKey,
                   status |-> IF sessionId = 0 THEN 400
                              ELSE IF sessionId \notin sse.transports THEN 404
                              ELSE 200]
  /\ UNCHANGED <<requestVars, tokenVars, sessionVars>>

NextServer ==
  \/ \E id \in SessionIds, k \in UserKeys \cup {0}, connects \in BOOLEAN :
        SseOpen(id, k, connects)
  \/ \E id \in SessionIds : ResEnds(id)
  \/ \E id \in SessionIds : ReqClose(id)
  \/ KeepAlive
  \/ Shutdown
  \/ \E id \in SessionIds \cup {0} : PostMessages(id)

SpecServer == Init /\ [][NextServer]_vars

\* ----------------------------------------------------- the session registry
\* The two session registries called in any order.
CreateSession(sessionId, userKey) ==
  /\ LET c == createSession(sessionToUserKey, sessionId, userKey)
     IN  /\ sessionToUserKey' = c.map
         /\ probe' = [op |-> "createSession", key |-> sessionId,
                      userKey |-> userKey, result |-> c.result]
  /\ UNCHANGED <<requestVars, tokenVars, sessionUserKeyMap, sse, conn>>

RemoveSession(sessionId) ==
  /\ LET r == removeSession(sessionToUserKey, sessionId)
     IN  /\ sessionToUserKey' = r.map
         /\ probe' = [op |-> "removeSession", key |-> sessionId,
                      userKey |-> 0, result |-> r.result]
  /\ UNCHANGED <<requestVars, tokenVars, sessionUserKeyMap, sse, conn>>

GetUserKey(sessionId) ==
  /\ probe' = [op |-> "UserAuthManager.getUserKeyBySessionId", key |-> sessionId,
               userKey |-> UserAuthManager_getUserKeyBySessionId(sessionToUserKey, sessionId),
               result |-> TRUE]
  /\ UNCHANGED <<requestVars, tokenVars, sessionVars>>

BindSessionUserKey(sessionId, userKey) ==
  /\ sessionUserKeyMap' = bindSessionUserKey(sessionUserKeyMap, sessionId, userKey)
  /\ probe' = [op |-> "bindSessionUserKey", key |-> sessionId,
               userKey |-> userKey, result |-> TRUE]
  /\ UNCHANGED <<requestVars, tokenVars, sessionToUserKey, sse, conn>>

UnbindSessionUserKey(sessionId) ==
  /\ LET u == unbindSessionUserKey(sessionUserKeyMap, sessionId)
     IN  /\ sessionUserKeyMap' = u.map
         /\ probe' = [op |-> "unbindSessionUserKey", key |-> sessionId,
                      userKey |-> 0, result |-> u.result]
  /\ UNCHANGED <<requestVars, tokenVars, sessionToUserKey, sse, conn>>

GetUserKeyBySessionId(sessionId) ==
  /\ probe' = [op |-> "getUserKeyBySessionId", key |-> sessionId,
               userKey |-> getUserKeyBySessionId(sessionUserKeyMap, sessionId),
               result |-> TRUE]
  /\ UNCHANGED <<requestVars, tokenVars, sessionVars>>

NextSession ==
  \/ \E id \in SessionIds \cup {0}, k \in UserKeys \cup {0} : CreateSession(id, k)
  \/ \E id \in SessionIds \cup {0} : RemoveSession(id)
  \/ \E id \in SessionIds \cup {0} : GetUserKey(id)
  \/ \E id \in SessionIds, k \in UserKeys : BindSessionUserKey(id, k)
  \/ \E id \in SessionIds : UnbindSessionUserKey(id)
  \/ \E id \in SessionIds : GetUserKeyBySessionId(id)

SpecSession == Init /\ [][NextSession]_vars

\* ------------------------------------------------------ the user context
\* Call chains run concurrently.  A chain is started by an inbound message
\* inside UserContextManager.run, or outside every scope (a timer); a chain
\* spawns asynchronous work; a chain reads the current identity.  The field
\* scope of a task keeps, for the properties, the context of the run the task
\* descends from.
Contexts ==
  { [userKey |-> 0, baseUrl |-> 1], [userKey |-> 1, baseUrl |-> 1],
    [userKey |-> 2, baseUrl |-> 2] }

\* UserContextManager.run(context, callback): the store callback runs with
run(context) == context

\* faulty variant: asynchronous work loses the store
enterAsync_NoStore(parentStore) == Null

\* AsyncLocalStorage: asynchronous work runs with the store of the chain that
\* created it
enterAsync(parentStore) == parentStore

\* UserContextManager.getUserKey(); 0 for ''
getUserKey(store) == IF store = Null THEN 0 ELSE store.userKey

\* UserContextManager.getBaseUrl()
getBaseUrl(store) == IF store = Null THEN 0 ELSE store.baseUrl

\* UserContextManager.getContext()
getContext(store) == store

\* UserContextManager.hasContext()
hasContext(store) == store # Null

contextVars == <<tokenVars, sessionVars, probe, config, schedulerVars>>

\* POST /messages: the handler runs the message inside a scope
RunScope(t, context) ==
  /\ tasks[t].state = "free"
  /\ tasks' = [tasks EXCEPT ![t] = [state |-> "active", parent |-> 0,
                                    store |-> run(context), scope |-> context]]
  /\ UNCHANGED contextVars

\* work started outside every scope
StartOutside(t) ==
  /\ tasks[t].state = "free"
  /\ tasks' = [tasks EXCEPT ![t] = [state |-> "active", parent |-> 0,
                                    store |-> Null, scope |-> Null]]
  /\ UNCHANGED contextVars

\* a chain spawns asynchronous work (a promise, a timer, an upstream call)
SpawnAsync(parent, t) ==
  /\ tasks[parent].state = "active"
  /\ tasks[t].state = "free"
  /\ tasks' = [tasks EXCEPT ![t] = [state |-> "active", parent |-> parent,
                                    store |-> enterAsync(tasks[parent].store),
                                    scope |-> tasks[parent].scope]]
  /\ UNCHANGED contextVars

\* a chain ends; the work it spawned goes on
EndTask(t) ==
  /\ tasks[t].state = "active"
  /\ tasks' = [tasks EXCEPT ![t] = FreeTask]
  /\ UNCHANGED contextVars

\* a chain reads the current identity
ReadContext(t) ==
  /\ tasks[t].state = "active"
  /\ probe' = [op |-> "readContext", task |-> t, parent |-> tasks[t].parent,
               scope |-> tasks[t].scope,
               userKey |-> getUserKey(tasks[t].store),
               baseUrl |-> getBaseUrl(tasks[t].store),
               context |-> getContext(tasks[t].store),
               hasContext |-> hasContext(tasks[t].store)]
  /\ UNCHANGED <<tokenVars, sessionVars, requestVars>>

NextContext ==
  \/ \E t \in Tasks, c \in Contexts : RunScope(t, c)
  \/ \E t \in Tasks : StartOutside(t)
  \/ \E parent \in Tasks, t \in Tasks : SpawnAsync(parent, t)
  \/ \E t \in Tasks : EndTask(t)
  \/ \E t \in Tasks : ReadContext(t)

SpecContext == Init /\ [][NextContext]_vars

\* -------------------------------------------- client keys and identity
\* the value of a parameter that was not passed (undefined, null)
Absent == <<"undefined">>

\* `:${userKey}` if userKey is truthy, '' otherwise
userPart(userKey) ==
  IF userKey = Absent \/ userKey = NoText THEN NoText ELSE <<":">> \o userKey

\* faulty variant: the user part left out of the key
generateClientKey_NoUserPart(clientId, clientSecret, userKey) ==
  clientId \o <<":">> \o clientSecret

\* TokenCacheManager.generateClientKey(clientId, clientSecret, userKey?)
generateClientKey(clientId, clientSecret, userKey) ==
  clientId \o <<":">> \o clientSecret \o userPart(userKey)

\* crypto.createHash('sha256').update(source).digest('hex'): digests are
\* taken to differ whenever their sources differ
sha256(source) == [sha256 |-> source]

\* AuthUtils.generateClientKey(userKey?) under configuration cfg
AuthUtils_generateClientKey(cfg, userKey) ==
  LET source == IF cfg.authType = "tenant"
                THEN cfg.appId \o <<":">> \o cfg.appSecret
                ELSE cfg.appId \o <<":">> \o cfg.appSecret \o userPart(userKey)
  IN  sha256(source)

\* String.prototype.trim
RECURSIVE trimStart(_)
trimStart(s) == IF s # <<>> /\ Head(s) = " " THEN trimStart(Tail(s)) ELSE s

RECURSIVE trimEnd(_)
trimEnd(s) ==
  IF s # <<>> /\ s[Len(s)] = " " THEN trimEnd(SubSeq(s, 1, Len(s) - 1)) ELSE s

trim(s) == trimEnd(trimStart(s))

\* what a deployment can be configured with and what a caller can pass as
\* client id and client secret
AppIds     == { <<"a">>, <<"a", ":">> }
AppSecrets == { <<"b">>, <<":", "b">> }
Configs    == [authType : {"tenant", "user"}, appId : AppIds, appSecret : AppSecrets]

\* the user keys a caller can pass
UserKeyTexts == { Absent, NoText, <<"u">>, <<"v">> }

\* the session id as the string the query parameter carries
SessionChars == <<"s", "t", "x", "y">>
SessionIdText(sessionId) == <<SessionChars[sessionId]>>

\* the requests that can come in: the Cursor version of the user-agent
\* (<<>> if it names none), the Authorization header, and the query
\* parameters userKey and sessionId (0 if absent)
IncomingRequests ==
  { [cursor |-> <<>>, authorization |-> Absent, userKey |-> Absent, sessionId |-> 0],
    [cursor |-> <<1, 5, 0>>, authorization |-> <<"Bearer ", "u">>,
     userKey |-> Absent, sessionId |-> 0],
    [cursor |-> <<1, 5, 0>>, authorization |-> <<"Bearer ", " ">>,
     userKey |-> <<"u">>, sessionId |-> 1],
    [cursor |-> <<1, 4, 9>>, authorization |-> <<"Bearer ", "u">>,
     userKey |-> <<"u">>, sessionId |-> 1],
    [cursor |-> <<1, 4, 9>>, authorization |-> Absent,
     userKey |-> <<" ", "v">>, sessionId |-> 0],
    [cursor |-> <<1, 4, 9>>, authorization |-> Absent, userKey |-> NoText, sessionId |-> 1],
    [cursor |-> <<>>, authorization |-> Absent, userKey |-> Absent, sessionId |-> 2] }

\* the request that carries no identity at all
AnonymousRequest ==
  [cursor |-> <<>>, authorization |-> Absent, userKey |-> Absent, sessionId |-> 0]

\* isAuthForTenant()
isAuthForTenant(cfg) == cfg.authType = "tenant"

\* isUserAuthSupported(req): Cursor 1.5.0 and later
isUserAuthSupported(r) ==
  /\ r.cursor # <<>>
  /\ \/ r.cursor[1] > 1
     \/ r.cursor[1] = 1 /\ r.cursor[2] > 5
     \/ r.cursor[1] = 1 /\ r.cursor[2] = 5 /\ r.cursor[3] >= 0

\* faulty variant: a user key sent with a session id is not remembered
getRequestKey_NoBinding(cfg, m, r) ==
  IF isAuthForTenant(cfg) THEN [key |-> NoText, map |-> m]
  ELSE IF isUserAuthSupported(r)
  THEN IF /\ r.authorization # Absent /\ Head(r.authorization) = "Bearer "
          /\ Len(trim(Tail(r.authorization))) > 0
       THEN [key |-> trim(Tail(r.authorization)), map |-> m]
       ELSE [key |-> NoText, map |-> m]
  ELSE IF r.userKey # Absent /\ Len(trim(r.userKey)) > 0
  THEN [key |-> trim(r.userKey), map |-> m]
  ELSE IF r.sessionId # 0
  THEN [key |-> IF getUserKeyBySessionId(m, r.sessionId) # NoText
                THEN getUserKeyBySessionId(m, r.sessionId)
                ELSE SessionIdText(r.sessionId),
        map |-> m]
  ELSE [key |-> NoText, map |-> m]

\* getRequestKey(req) with the session map m: the key and the map it leaves
getRequestKey(cfg, m, r) ==
  IF isAuthForTenant(cfg) THEN [key |-> NoText, map |-> m]
  ELSE IF isUserAuthSupported(r)
  THEN IF /\ r.authorization # Absent /\ Head(r.authorization) = "Bearer "
          /\ Len(trim(Tail(r.authorization))) > 0
       THEN [key |-> trim(Tail(r.authorization)), map |-> m]
       ELSE [key |-> NoText, map |-> m]
  ELSE IF r.userKey # Absent /\ Len(trim(r.userKey)) > 0
  THEN [key |-> trim(r.userKey),
        map |-> IF r.sessionId # 0
                THEN bindSessionUserKey(m, r.sessionId, trim(r.userKey)) ELSE m]
  ELSE IF r.sessionId # 0
  THEN LET foundUserKey == getUserKeyBySessionId(m, r.sessionId)
       IN  [key |-> IF foundUserKey # NoText THEN foundUserKey
                    ELSE SessionIdText(r.sessionId),
            map |-> m]
  ELSE [key |-> NoText, map |-> m]

\* The store holds the ClientKeys of a deployment by name: 1 names the key
\* without user part, 2 the key of any end user.
KeyOf(cfg, clientKey) ==
  IF clientKey = generateClientKey(cfg.appId, cfg.appSecret, Absent) THEN 1 ELSE 2

\* getTenantToken(key): the app_access_token of the record, or 0 for null
getTenantToken(s, key, ms) ==
  LET g == getTenantTokenInfo(s, key, ms)
  IN  [token |-> IF g.info = Null THEN 0 ELSE g.info.app_access_token,
       store |-> g.store]

\* what the identity provider may answer to the credential grant
TenantOutcomes(n) ==
  { [kind |-> "ok", token |-> n, expires_in |-> e] : e \in {TickSeconds, 4 * TickSeconds} }
    \cup { [kind |-> "transient", token |-> 0, expires_in |-> 0] }

\* AuthService.getTenantToken(appId, appSecret, clientKey): the credential
\* grant; the record it obtains replaces the cached one
AuthService_getTenantToken(s, key, upstream, ms) ==
  IF upstream.kind = "ok"
  THEN [threw |-> FALSE, token |-> upstream.token,
        store |-> cacheTenantToken(s, key,
                    [app_access_token |-> upstream.token,
                     expires_at |-> NowSeconds(ms) + upstream.expires_in], 0, ms)]
  ELSE [threw |-> TRUE, token |-> 0, store |-> s]

\* TokenProvider.fetchNewTenantToken()
fetchNewTenantToken(cfg, s, upstream, ms) ==
  LET clientKey  == generateClientKey(cfg.appId, cfg.appSecret, Absent)
      authResult == AuthService_getTenantToken(s, KeyOf(cfg, clientKey), upstream, ms)
  IN  [result |-> IF authResult.threw THEN Failure("network")
                  ELSE IF authResult.token # 0 THEN Success(authResult.token)
                  ELSE Failure("no tenant_access_token"),
       store |-> authResult.store]

\* TokenProvider.getTenantToken(): the result, the store it leaves, the
\* ClientKey it looked up and whether it called the identity provider
TokenProvider_getTenantToken(cfg, s, upstream, ms) ==
  LET clientKey == generateClientKey(cfg.appId, cfg.appSecret, Absent)
      key == KeyOf(cfg, clientKey)
      c   == checkTenantTokenStatus(s, key, ms)
      t   == getTenantToken(c.store, key, ms)
      served == c.status.isValid /\ ~c.status.shouldRefresh
      after  == IF served THEN t.store ELSE c.store
      f   == fetchNewTenantToken(cfg, after, upstream, ms)
  IN  IF served /\ t.token # 0
      THEN [result |-> Success(t.token), store |-> t.store,
            clientKey |-> clientKey, fetched |-> FALSE]
      ELSE IF c.status.shouldRefresh \/ c.status.isExpired
      THEN [result |-> f.result, store |-> f.store,
            clientKey |-> clientKey, fetched |-> TRUE]
      ELSE [result |-> Failure("no tenant token"), store |-> after,
            clientKey |-> clientKey, fetched |-> FALSE]

\* faulty variant: the tenant record looked up under the key of the caller
verifyAndGetUserToken_ByUserKey(cfg, s, r, upstream, ms) ==
  LET clientKey == generateClientKey(cfg.appId, cfg.appSecret, r.userKey)
      t == getTenantToken(s, KeyOf(cfg, clientKey), ms)
  IN  [status |-> IF t.token # 0 THEN 200 ELSE 500, feishuToken |-> t.token,
       error |-> IF t.token # 0 THEN "none" ELSE "server_error",
       clientKey |-> clientKey, fetched |-> FALSE, store |-> t.store]

\* verifyAndGetUserToken(req, res, next) of a deployment in tenant mode:
\* next() with req.feishuToken set (status 200), or 500 server_error
verifyAndGetUserToken(cfg, s, r, upstream, ms) ==
  LET tokenResult == TokenProvider_getTenantToken(cfg, s, upstream, ms)
  IN  [status |-> IF tokenResult.result.success THEN 200 ELSE 500,
       feishuToken |-> tokenResult.result.token,
       error |-> IF tokenResult.result.success THEN "none" ELSE "server_error",
       clientKey |-> tokenResult.clientKey, fetched |-> tokenResult.fetched,
       store |-> tokenResult.store]

\* ------------------------------------------------------ the tenant mode
\* A deployment of any configuration; requests come in with any identity.
InitTenant ==
  /\ clock = StartSeconds
  /\ cache = EmptyCache
  /\ cacheOrder = <<>>
  /\ userTokenCacheFile = EmptyCache
  /\ tenantTokenCacheFile = EmptyCache
  /\ issued = 0
  /\ req = [p \in Requests |-> IdleReq]
  /\ sweep = IdleSweep
  /\ probe = Null
  /\ hist = [k \in Keys |-> FreshHist]
  /\ sessionToUserKey = NoSessions
  /\ sessionUserKeyMap = [id \in SessionIds |-> NoText]
  /\ sse = [transports |-> {}, connections |-> {}, keepAliveIntervalId |-> TRUE]
  /\ conn = [id \in SessionIds |-> "new"]
  /\ tasks = [t \in Tasks |-> FreeTask]
  /\ InitScheduler
  /\ config \in Configs

\* getRequestKey(req) is called
GetRequestKey(r) ==
  /\ LET g == getRequestKey(config, sessionUserKeyMap, r)
     IN  /\ sessionUserKeyMap' = g.map
         /\ probe' = [op |-> "getRequestKey", request |-> r, now |-> clock,
                      upstream |-> Null, result |-> g.key]
  /\ UNCHANGED <<requestVars, tokenVars, sessionToUserKey, sse, conn>>

\* a request passes the middleware of a deployment in tenant mode; the
\* identity provider, if called, answers with upstream
VerifyAndGetUserToken(r, upstream) ==
  /\ isAuthForTenant(config)
  /\ LET v == verifyAndGetUserToken(config, Store, r, upstream, clock)
     IN  /\ v.fetched /\ upstream.kind = "ok" => issued < MaxIssue
         /\ issued' = IF v.fetched /\ upstream.kind = "ok" THEN issued + 1 ELSE issued
         /\ SetStore(v.store)
         /\ probe' = [op |-> "verifyAndGetUserToken", request |-> r, now |-> clock,
                      upstream |-> upstream, result |-> [v EXCEPT !.store = Null]]
  /\ UNCHANGED <<requestVars, sessionVars, clock, req, sweep, hist>>

NextTenant ==
  \/ Tick
  \/ \E r \in IncomingRequests : GetRequestKey(r)
  \/ \E r \in IncomingRequests : \E o \in TenantOutcomes(issued + 1) :
        VerifyAndGetUserToken(r, o)

SpecTenant == InitTenant /\ [][NextTenant]_vars

\* ------------------------------------------------------ key derivation
\* Client keys are derived for any client id, client secret and user key,
\* and requests with any identity are resolved to their request key.
KeyInputs == AppIds \X AppSecrets \X UserKeyTexts

\* TokenCacheManager.generateClientKey is called
GenerateClientKey(clientId, clientSecret, userKey) ==
  /\ probe' = [op |-> "generateClientKey", now |-> clock,
               args |-> <<clientId, clientSecret, userKey>>,
               result |-> generateClientKey(clientId, clientSecret, userKey)]
  /\ UNCHANGED <<requestVars, tokenVars, sessionVars>>

\* AuthUtils.generateClientKey is called
AuthUtilsGenerateClientKey(userKey) ==
  /\ probe' = [op |-> "AuthUtils.generateClientKey", now |-> clock,
               args |-> <<config.appId, config.appSecret, userKey>>,
               result |-> AuthUtils_generateClientKey(config, userKey)]
  /\ UNCHANGED <<requestVars, tokenVars, sessionVars>>

NextKeys ==
  \/ \E t \in KeyInputs : GenerateClientKey(t[1], t[2], t[3])
  \/ \E u \in UserKeyTexts : AuthUtilsGenerateClientKey(u)
  \/ \E r \in IncomingRequests : GetRequestKey(r)

SpecKeys == InitTenant /\ [][NextKeys]_vars

\* ------------------------------------------------------ the OAuth gateway
\* Query and body parameters are strings; a parameter is falsy if it is
\* absent or empty.
Truthy(x) == x # Absent /\ x # NoText

\* 5 minutes, on the clock of the model (5 * 60 * 1000 ms)
STATE_MAX_AGE == 5 * 60

\* Buffer.from(JSON.stringify(stateData)).toString('base64'), and the state
\* parameters that are not such an encoding
NoBlob  == [kind |-> "absent"]
Garbage == [kind |-> "garbage"]
encodeBase64Json(stateData) == [kind |-> "base64", json |-> stateData]

\* JSON.parse(Buffer.from(state, 'base64').toString()): the data, or a throw
decodeBase64Json(state) ==
  IF state.kind = "base64" THEN [threw |-> FALSE, json |-> state.json]
  ELSE [threw |-> TRUE, json |-> Null]

\* new URL(text) throws unless text is an absolute URL
ClientUrl == <<"https://client/cb">>
NotAUrl   == <<"client/cb">>
IsAbsoluteUrl(text) == text = ClientUrl

\* the responses of the gateway
NoResponse ==
  [kind |-> "none", status |-> 0, error |-> "none", location |-> NoText,
   code |-> Absent, state |-> Absent, blob |-> NoBlob,
   access_token |-> NoText, token |-> NoText, token_type |-> "none", expires_in |-> 0]

\* res.status(status).json({ error, error_description })
JsonError(status, error) ==
  [NoResponse EXCEPT !.kind = "json", !.status = status, !.error = error]

\* res.status(status).send(message)
TextError(status, message) ==
  [NoResponse EXCEPT !.kind = "text", !.status = status, !.error = message]

\* the tokens CacheManager.generateRandomKey() can return, by number
MintedTokens == {1, 2}
TokenChars   == <<"t", "w">>
TokenText(n) == <<TokenChars[n]>>

\* The store holds the ClientKeys of the minted tokens by their number; 0 is
\* the name of every other string, under which the store holds nothing.
StoreKeyOf(cfg, clientKey) ==
  IF \E n \in MintedTokens :
        clientKey = generateClientKey(cfg.appId, cfg.appSecret, TokenText(n))
  THEN CHOOSE n \in MintedTokens :
        clientKey = generateClientKey(cfg.appId, cfg.appSecret, TokenText(n))
  ELSE 0

\* getUserTokenInfo under a string
LookupUserTokenInfo(s, cfg, clientKey, ms) ==
  IF StoreKeyOf(cfg, clientKey) = 0 THEN [info |-> Null, store |-> s]
  ELSE getUserTokenInfo(s, StoreKeyOf(cfg, clientKey), ms)

\* what the identity provider may answer to the exchange of a code: a token
\* response with or without refresh token, an error object, or no answer
ExchangeOutcomes(n) ==
  { [kind |-> "ok",
     data |-> [code |-> c, access_token |-> a, refresh_token |-> rt,
               expires_in |-> 4 * TickSeconds,
               refresh_token_expires_in |-> IF rt = 0 THEN 0 ELSE 6 * TickSeconds]] :
       c \in {0}, a \in {n}, rt \in {0, n} }
  \cup { [kind |-> "ok",
          data |-> [code |-> 1, access_token |-> 0, refresh_token |-> 0,
                    expires_in |-> 0, refresh_token_expires_in |-> 0]],
         [kind |-> "transient", data |-> Null] }

\* handleAuthorization(req, res) at time ms
handleAuthorization(cfg, q, ms) ==
  IF ~Truthy(q.redirect_uri) THEN JsonError(400, "invalid_request")
  ELSE IF ~Truthy(cfg.appId) THEN JsonError(500, "server_error")
  ELSE [NoResponse EXCEPT
          !.kind = "redirect", !.status = 302, !.location = <<"https://open.feishu.cn">>,
          !.blob = encodeBase64Json([original_redirect_uri |-> q.redirect_uri,
                                     original_state |-> q.state,
                                     client_id |-> q.client_id,
                                     timestamp |-> ms])]

\* faulty variant: the state of the caller not reattached
handleFeishuCallback_DropsState(q, ms) ==
  LET d == decodeBase64Json(q.state)
  IN  IF Truthy(q.error) THEN TextError(400, "authorization failed")
      ELSE IF ~Truthy(q.code) \/ q.state = NoBlob
      THEN TextError(400, "missing parameters")
      ELSE IF d.threw THEN TextError(400, "state decoding failed")
      ELSE IF ms - d.json.timestamp > STATE_MAX_AGE
      THEN TextError(400, "authorization request expired")
      ELSE IF ~IsAbsoluteUrl(d.json.original_redirect_uri)
      THEN TextError(400, "state decoding failed")
      ELSE [NoResponse EXCEPT
              !.kind = "redirect", !.status = 302,
              !.location = d.json.original_redirect_uri,
              !.code = q.code]

\* handleFeishuCallback(req, res) at time ms
handleFeishuCallback(q, ms) ==
  LET d == decodeBase64Json(q.state)
  IN  IF Truthy(q.error) THEN TextError(400, "authorization failed")
      ELSE IF ~Truthy(q.code) \/ q.state = NoBlob
      THEN TextError(400, "missing parameters")
      ELSE IF d.threw THEN TextError(400, "state decoding failed")
      ELSE IF ms - d.json.timestamp > STATE_MAX_AGE
      THEN TextError(400, "authorization request expired")
      ELSE IF ~IsAbsoluteUrl(d.json.original_redirect_uri)
      THEN TextError(400, "state decoding failed")
      ELSE [NoResponse EXCEPT
              !.kind = "redirect", !.status = 302,
              !.location = d.json.original_redirect_uri,
              !.code = q.code,
              !.state = IF Truthy(d.json.original_state)
                        THEN d.json.original_state ELSE Absent]

\* AuthUtils.encodeState(appId, appSecret, clientKey, redirectUri) at time ms
AuthUtils_encodeState(appId, appSecret, clientKey, redirectUri, ms) ==
  encodeBase64Json([appId |-> appId, appSecret |-> appSecret, clientKey |-> clientKey,
                    redirectUri |-> redirectUri, timestamp |-> NowSeconds(ms)])

\* AuthUtils.decodeState(encodedState): the data, or Null
AuthUtils_decodeState(encodedState) ==
  IF decodeBase64Json(encodedState).threw THEN Null
  ELSE decodeBase64Json(encodedState).json

\* the answer of the identity provider as the callback caches it
CallbackTokenInfo(data, ms) ==
  [access_token  |-> data.access_token,
   refresh_token |-> data.refresh_token,
   expires_at    |-> NowSeconds(ms) + data.expires_in,
   refresh_token_expires_at |->
      IF data.refresh_token_expires_in # 0
      THEN NowSeconds(ms) + data.refresh_token_expires_in ELSE 0,
   client_id |-> 0, client_secret |-> 0, generated_token |-> 0]

\* the page sendSuccess or sendFail renders
Page(ok) == [NoResponse EXCEPT !.kind = "html", !.status = 200,
                                !.error = IF ok THEN "none" ELSE "fail"]

\* callback(req, res) of the callback service that decodes the state: the
\* page, whether the code was exchanged upstream, and the store it leaves
callbackByState(cfg, s, q, upstream, ms) ==
  LET stateData == AuthUtils_decodeState(q.state)
      failed    == [response |-> Page(FALSE), exchanged |-> FALSE, store |-> s]
  IN  IF ~Truthy(q.code) THEN failed
      ELSE IF q.state = NoBlob THEN failed
      ELSE IF stateData = Null THEN failed
      ELSE IF stateData.appId # cfg.appId \/ stateData.appSecret # cfg.appSecret
      THEN failed
      ELSE IF upstream.kind # "ok"
      THEN [failed EXCEPT !.exchanged = TRUE]
      ELSE IF upstream.data.code # 0 \/ upstream.data.access_token = 0
      THEN [failed EXCEPT !.exchanged = TRUE]
      ELSE [response  |-> Page(TRUE), exchanged |-> TRUE,
            store |->
              IF upstream.data.expires_in # 0 /\ StoreKeyOf(cfg, stateData.clientKey) # 0
              THEN cacheUserToken(s, StoreKeyOf(cfg, stateData.clientKey),
                     CallbackTokenInfo(upstream.data, ms),
                     IF upstream.data.refresh_token_expires_in # 0
                     THEN upstream.data.refresh_token_expires_in
                     ELSE DEFAULT_REFRESH_TTL, ms)
              ELSE s]

\* CacheManager.getUserToken(clientKey): the record the store holds
CacheManager_getUserToken(s, cfg, clientKey, ms) ==
  LookupUserTokenInfo(s, cfg, clientKey, ms)

\* the number under which the refresh model knows an application id: APP_ID
\* for the configured one, 0 (none) for every other string
AppIdNumber(cfg, text) == IF text = cfg.appId THEN APP_ID ELSE 0

\* the same for application secrets
AppSecretNumber(cfg, text) == IF text = cfg.appSecret THEN APP_SECRET ELSE 0

\* refreshUserToken: its result, once the upstream call has been answered
RefreshEnded(e) ==
  [threw |-> e.error.kind # "none", called |-> TRUE, data |-> e.data, store |-> e.store]

\* refreshUserToken: what the identity provider answers to the request body call
RefreshAnswer(call, upstream) ==
  IF call.client_id = APP_ID /\ call.client_secret = APP_SECRET
     /\ upstream.kind = "ok" /\ upstream.data.code = 0
  THEN [kind |-> "ok", data |-> upstream.data]
  ELSE IF upstream.kind = "transient" THEN [kind |-> "transient"]
  ELSE [kind |-> "invalid"]

\* refreshUserToken: from the request body b on
RefreshBegun(b, key, upstream, ms) ==
  IF b.error.kind # "none"
  THEN [threw |-> TRUE, called |-> FALSE, data |-> Null, store |-> b.store]
  ELSE RefreshEnded(refreshUserTokenEnd(b.store, key, b.call,
                                        RefreshAnswer(b.call, upstream), ms))

\* refreshUserToken: under the name key the store has for its first argument
RefreshUnder(s, cfg, key, clientKey, upstream, ms) ==
  IF key = 0
  THEN [threw |-> TRUE, called |-> FALSE, data |-> Null, store |-> s]
  ELSE RefreshBegun(refreshUserTokenBegin(s, key, AppIdNumber(cfg, clientKey),
                                          AppSecretNumber(cfg, cfg.appId), ms),
                    key, upstream, ms)

\* AuthService.refreshUserToken(clientKey, appId, appSecret) as
\* handleTokenExchange calls it, with the arguments (refresh_token, clientKey,
\* appId, appSecret): the parameter clientKey receives the refresh token,
\* appId the ClientKey and appSecret the application id
AuthService_refreshUserToken(s, cfg, refresh_token, clientKey, upstream, ms) ==
  RefreshUnder(s, cfg, StoreKeyOf(cfg, refresh_token), clientKey, upstream, ms)

\* the token data as handleTokenExchange caches it: the answer as it came,
\* with the generated token
MintedTokenInfo(tokenData, token) ==
  [access_token  |-> tokenData.access_token,
   refresh_token |-> tokenData.refresh_token,
   expires_at    |-> IF "expires_at" \in DOMAIN tokenData THEN tokenData.expires_at ELSE 0,
   refresh_token_expires_at |->
      IF "refresh_token_expires_at" \in DOMAIN tokenData
      THEN tokenData.refresh_token_expires_at ELSE 0,
   client_id     |-> IF "client_id" \in DOMAIN tokenData THEN tokenData.client_id ELSE 0,
   client_secret |-> IF "client_secret" \in DOMAIN tokenData
                     THEN tokenData.client_secret ELSE 0,
   generated_token |-> token]

\* 1000 * 60 * 24 * 365
NOMINAL_EXPIRES_IN == 1000 * 60 * 24 * 365

\* the access tokens of the identity provider, as text
UpstreamChars == <<"A", "B", "C", "D">>
UpstreamTokenText(a) == <<UpstreamChars[a]>>

\* faulty variant: a token minted for any answer of the identity provider
MintToken_WithoutAccessToken(cfg, s, tokenData, token, ms) ==
  IF tokenData # Null
  THEN [response |-> [NoResponse EXCEPT
                        !.kind = "json", !.status = 200,
                        !.access_token = TokenText(token),
                        !.token_type = "Bearer",
                        !.expires_in = NOMINAL_EXPIRES_IN],
        minted |-> TRUE,
        store |-> cacheUserToken(s, StoreKeyOf(cfg,
                     generateClientKey(cfg.appId, cfg.appSecret, TokenText(token))),
                                 MintedTokenInfo(tokenData, token), 0, ms)]
  ELSE [response |-> JsonError(400, "invalid_grant"), minted |-> FALSE, store |-> s]

\* faulty variant: the token of the identity provider handed to the caller
MintToken_ReturnsUpstream(cfg, s, tokenData, token, ms) ==
  IF tokenData # Null /\ tokenData.access_token # 0
  THEN [response |-> [NoResponse EXCEPT
                        !.kind = "json", !.status = 200,
                        !.access_token = UpstreamTokenText(tokenData.access_token),
                        !.token_type = "Bearer",
                        !.expires_in = NOMINAL_EXPIRES_IN],
        minted |-> TRUE,
        store |-> cacheUserToken(s, StoreKeyOf(cfg,
                     generateClientKey(cfg.appId, cfg.appSecret, TokenText(token))),
                                 MintedTokenInfo(tokenData, token), 0, ms)]
  ELSE [response |-> JsonError(400, "invalid_grant"), minted |-> FALSE, store |-> s]

\* the part of handleTokenExchange after the token data has been obtained
\* (lines 335-360): the token is generated, the data cached under its
\* ClientKey, and the token returned
MintToken(cfg, s, tokenData, token, ms) ==
  IF tokenData # Null /\ tokenData.access_token # 0
  THEN LET clientKey == generateClientKey(cfg.appId, cfg.appSecret, TokenText(token))
       IN  [response |-> [NoResponse EXCEPT
                            !.kind = "json", !.status = 200,
                            !.access_token = TokenText(token),
                            !.token_type = "Bearer",
                            !.expires_in = NOMINAL_EXPIRES_IN],
            minted |-> TRUE,
            store |-> cacheUserToken(s, StoreKeyOf(cfg, clientKey),
                                     MintedTokenInfo(tokenData, token), 0, ms)]
  ELSE [response |-> JsonError(400, "invalid_grant"), minted |-> FALSE, store |-> s]

\* a request rejected before anything is done with it
Rejected(s, error) ==
  [response |-> JsonError(400, error), exchanged |-> FALSE, minted |-> FALSE, store |-> s]

\* the answer of handleTokenExchange after MintToken
Minted(m, exchanged) ==
  [response |-> m.response, exchanged |-> exchanged, minted |-> m.minted, store |-> m.store]

\* the authorization_code grant (lines 300-311, 335-367)
CodeGrant(cfg, s, upstream, token, ms) ==
  IF upstream.kind # "ok"
  THEN [response |-> JsonError(500, "server_error"), exchanged |-> TRUE,
        minted |-> FALSE, store |-> s]
  ELSE Minted(MintToken(cfg, s, upstream.data, token, ms), TRUE)

\* the refresh_token grant once refreshUserToken has returned or thrown
Refreshed(cfg, refreshed, token, ms) ==
  IF refreshed.threw
  THEN [response |-> JsonError(500, "server_error"), exchanged |-> refreshed.called,
        minted |-> FALSE, store |-> refreshed.store]
  ELSE Minted(MintToken(cfg, refreshed.store, refreshed.data, token, ms), refreshed.called)

\* the refresh_token grant (lines 312-332), tempToken the cached record
RefreshGrant(cfg, tempToken, refresh_token, clientKey, upstream, token, ms) ==
  IF /\ tempToken.info # Null
     /\ tempToken.info.refresh_token_expires_at # 0
     /\ tempToken.info.refresh_token_expires_at < NowSeconds(ms)
  THEN [response |-> [NoResponse EXCEPT
                        !.kind = "json", !.status = 200,
                        !.token = TokenText(token), !.token_type = "Bearer",
                        !.expires_in = DEFAULT_EXPIRES_IN],
        exchanged |-> FALSE, minted |-> TRUE, store |-> tempToken.store]
  ELSE Refreshed(cfg, AuthService_refreshUserToken(tempToken.store, cfg, refresh_token,
                                                   clientKey, upstream, ms),
                 token, ms)

\* the refresh_token grant under the ClientKey of the refresh token
RefreshGrantUnder(cfg, s, refresh_token, clientKey, upstream, token, ms) ==
  RefreshGrant(cfg, CacheManager_getUserToken(s, cfg, clientKey, ms),
               refresh_token, clientKey, upstream, token, ms)

\* faulty variant: the parameters of the request not validated
handleTokenExchange_NoValidation(cfg, s, body, upstream, token, ms) ==
  LET m == MintToken(cfg, s, IF upstream.kind = "ok" THEN upstream.data ELSE Null,
                     token, ms)
  IN  [response |-> m.response, exchanged |-> TRUE, minted |-> m.minted, store |-> m.store]

\* handleTokenExchange(req, res) at time ms: the response, whether the
\* identity provider was called, whether a token was minted, and the store
\* it leaves; upstream is what the identity provider answers if it is
\* called, token what generateRandomKey returns
handleTokenExchange(cfg, s, body, upstream, token, ms) ==
  IF ~Truthy(body.grant_type) THEN Rejected(s, "invalid_request")
  ELSE IF body.grant_type \notin {<<"authorization_code">>, <<"refresh_token">>}
  THEN Rejected(s, "unsupported_grant_type")
  ELSE IF body.grant_type = <<"authorization_code">> /\ ~Truthy(body.code)
  THEN Rejected(s, "invalid_request")
  ELSE IF body.grant_type = <<"refresh_token">> /\ ~Truthy(body.refresh_token)
  THEN Rejected(s, "invalid_request")
  ELSE IF body.grant_type = <<"authorization_code">>
  THEN CodeGrant(cfg, s, upstream, token, ms)
  ELSE RefreshGrantUnder(cfg, s, body.refresh_token,
         generateClientKey(cfg.appId, cfg.appSecret, body.refresh_token),
         upstream, token, ms)

\* TokenProvider.getUserToken(reqKey) while the record needs no refresh
\* (steps 1 and 2): the cached access token; refresh tells that the record
\* is due for the refresh of step 3
TokenProvider_getUserToken(cfg, s, reqKey, ms) ==
  LET key == StoreKeyOf(cfg, generateClientKey(cfg.appId, cfg.appSecret, reqKey))
      c   == checkUserTokenStatus(s, key, ms)
      g   == getUserToken(c.store, key, ms)
  IN  IF key = 0 THEN [success |-> FALSE, token |-> 0, refresh |-> FALSE, store |-> s]
      ELSE IF c.status.isValid /\ ~c.status.shouldRefresh /\ g.token # 0
      THEN [success |-> TRUE, token |-> g.token, refresh |-> FALSE, store |-> g.store]
      ELSE [success |-> FALSE, token |-> 0,
            refresh |-> c.status.shouldRefresh /\ c.status.canRefresh,
            store |-> IF c.status.isValid /\ ~c.status.shouldRefresh
                      THEN g.store ELSE c.store]

\* ---- the requests the gateway receives
\* the times a state blob can have been built at
BlobTimes == {StartSeconds - 2 * TickSeconds, StartSeconds}

CallerState == <<"s">>
AuthCode    == <<"c">>

AuthorizeRequests ==
  { [redirect_uri |-> r, state |-> st, client_id |-> <<"client">>] :
      r \in {ClientUrl}, st \in {Absent, CallerState} }
  \cup { [redirect_uri |-> Absent,  state |-> Absent,      client_id |-> <<"client">>],
         [redirect_uri |-> NotAUrl, state |-> CallerState, client_id |-> <<"client">>] }

GatewayBlobs ==
  { handleAuthorization(DefaultConfig, a, t).blob :
      a \in {q \in AuthorizeRequests : Truthy(q.redirect_uri)}, t \in BlobTimes }

CallbackRequests ==
  { [error |-> <<"access_denied">>, code |-> AuthCode, state |-> Garbage],
    [error |-> Absent, code |-> Absent,   state |-> Garbage],
    [error |-> Absent, code |-> AuthCode, state |-> NoBlob],
    [error |-> Absent, code |-> AuthCode, state |-> Garbage] }
  \cup { [error |-> Absent, code |-> AuthCode, state |-> b] : b \in GatewayBlobs }

OtherAppId == <<"x">>

StateBlobs ==
  { AuthUtils_encodeState(appId, DefaultConfig.appSecret,
        generateClientKey(DefaultConfig.appId, DefaultConfig.appSecret, TokenText(1)),
        ClientUrl, t) :
      appId \in {DefaultConfig.appId, OtherAppId}, t \in BlobTimes }

StateCallbackRequests ==
  { [code |-> Absent,   state |-> Garbage],
    [code |-> AuthCode, state |-> NoBlob],
    [code |-> AuthCode, state |-> Garbage] }
  \cup { [code |-> AuthCode, state |-> b] : b \in StateBlobs }

UnknownToken == <<"z">>

TokenRequests ==
  { [grant_type |-> Absent, code |-> AuthCode, refresh_token |-> Absent],
    [grant_type |-> <<"password">>, code |-> AuthCode, refresh_token |-> Absent],
    [grant_type |-> <<"authorization_code">>, code |-> Absent, refresh_token |-> Absent],
    [grant_type |-> <<"refresh_token">>, code |-> Absent, refresh_token |-> Absent],
    [grant_type |-> <<"authorization_code">>, code |-> AuthCode, refresh_token |-> Absent],
    [grant_type |-> <<"refresh_token">>, code |-> Absent, refresh_token |-> TokenText(1)],
    [grant_type |-> <<"refresh_token">>, code |-> Absent, refresh_token |-> UnknownToken] }

\* ---- the steps of the gateway
\* the identity provider not reached, or not answering
NoAnswer == [kind |-> "transient", data |-> Null]

\* an upstream answer that issues a token
Issues(upstream) == upstream.kind = "ok" /\ upstream.data.access_token # 0

GatewayProbe(op, request, upstream, token, response, exchanged, minted, changed) ==
  probe' = [op |-> op, request |-> request, now |-> clock,
            upstream |-> IF exchanged THEN upstream ELSE Null,
            token |-> IF minted THEN token ELSE 0,
            response |-> response, exchanged |-> exchanged, minted |-> minted,
            changed |-> changed]

\* GET /oauth/authorize
HandleAuthorization(q) ==
  /\ GatewayProbe("handleAuthorization", q, Null, 0,
                  handleAuthorization(config, q, clock), FALSE, FALSE, FALSE)
  /\ UnchangedStore
  /\ UNCHANGED <<requestVars, sessionVars, clock, issued, req, sweep, hist>>

\* GET /oauth/feishu/callback
HandleFeishuCallback(q) ==
  /\ GatewayProbe("handleFeishuCallback", q, Null, 0,
                  handleFeishuCallback(q, clock), FALSE, FALSE, FALSE)
  /\ UnchangedStore
  /\ UNCHANGED <<requestVars, sessionVars, clock, issued, req, sweep, hist>>

\* GET /callback of the callback service that decodes the state
CallbackByState(q, upstream) ==
  /\ LET c == callbackByState(config, Store, q, upstream, clock)
     IN  /\ ~c.exchanged => upstream = NoAnswer
         /\ c.exchanged /\ Issues(upstream) => issued < MaxExchanges
         /\ issued' = IF c.exchanged /\ Issues(upstream) THEN issued + 1 ELSE issued
         /\ SetStore(c.store)
         /\ GatewayProbe("callback", q, upstream, 0, c.response, c.exchanged, FALSE,
                         c.store # Store)
  /\ UNCHANGED <<requestVars, sessionVars, clock, req, sweep, hist>>

\* POST /oauth/token
TokenExchanged(body, upstream, token, h) ==
  /\ ~h.exchanged => upstream = NoAnswer
  /\ ~h.minted => token = 1
  /\ h.exchanged /\ Issues(upstream) => issued < MaxExchanges
  /\ issued' = IF h.exchanged /\ Issues(upstream) THEN issued + 1 ELSE issued
  /\ SetStore(h.store)
  /\ GatewayProbe("handleTokenExchange", body, upstream, token, h.response,
                  h.exchanged, h.minted, h.store # Store)
  /\ UNCHANGED <<requestVars, sessionVars, clock, req, sweep, hist>>

HandleTokenExchange(body, upstream, token) ==
  TokenExchanged(body, upstream, token,
                 handleTokenExchange(config, Store, body, upstream, token, clock))

NextOAuth ==
  \/ Tick
  \/ \E q \in AuthorizeRequests : HandleAuthorization(q)
  \/ \E q \in CallbackRequests : HandleFeishuCallback(q)
  \/ \E q \in StateCallbackRequests : \E o \in ExchangeOutcomes(issued + 1) :
        CallbackByState(q, o)
  \/ \E body \in TokenRequests : \E o \in ExchangeOutcomes(issued + 1) :
        \E token \in MintedTokens : HandleTokenExchange(body, o, token)

SpecOAuth == Init /\ [][NextOAuth]_vars

\* ------------------------------------------------- the user mode middleware
\* The middleware in front of the tool endpoints, for a deployment in user
\* mode: the request key is resolved, the token of the user looked up and,
\* if it is due, refreshed.

\* the authorization link of generateAuthErrorResponse
NoLink == [kind |-> "none"]
AuthorizationLink(cfg, reqKey) ==
  [kind |-> "link", client_id |-> cfg.appId, state |-> reqKey]

\* generateAuthErrorResponse(isUserAuthSupported, baseUrl, reqKey)
generateAuthErrorResponse(cfg, supported, reqKey) ==
  IF supported
  THEN [error |-> "unauthorized", link |-> NoLink, statusCode |-> 401]
  ELSE [error |-> "unauthorized", link |-> AuthorizationLink(cfg, reqKey),
        statusCode |-> 500]

\* TokenProvider.refreshUserToken(clientKey) once the upstream has answered
\* with refreshResult (lines 136-160)
ProviderRefreshEnded(s, key, tokenInfo, refreshResult, ms) ==
  IF refreshResult.success /\ refreshResult.data # Null
  THEN [result |-> Success(refreshResult.data.access_token), called |-> TRUE,
        store |-> cacheUserToken(s, key,
                    UpdatedTokenInfo(tokenInfo, refreshResult.data, ms), 0, ms)]
  ELSE [result |-> Failure("refresh failed"), called |-> TRUE, store |-> s]

\* TokenProvider.refreshUserToken(clientKey), g the record it reads
ProviderRefresh(g, key, outcome, ms) ==
  IF g.info = Null
  THEN [result |-> Failure("no refresh_token"), called |-> FALSE, store |-> g.store]
  ELSE IF g.info.refresh_token = 0
  THEN [result |-> Failure("no refresh_token"), called |-> FALSE, store |-> g.store]
  ELSE ProviderRefreshEnded(g.store, key, g.info, UpstreamRefreshResult(outcome), ms)

\* TokenProvider.getUserToken(reqKey) from step 2 on, cached the outcome of
\* steps 1 and 2
ProviderUserToken(cached, key, outcome, ms) ==
  IF cached.success
  THEN [result |-> Success(cached.token), called |-> FALSE, store |-> cached.store]
  ELSE IF cached.refresh
  THEN ProviderRefresh(getUserTokenInfo(cached.store, key, ms), key, outcome, ms)
  ELSE [result |-> Failure("AuthRequired"), called |-> FALSE, store |-> cached.store]

\* TokenProvider.getUserToken(reqKey), whole; a failed refresh ends in
\* "authorization required" as well (line 76)
TokenProvider_getUserTokenWhole(cfg, s, reqKey, outcome, ms) ==
  ProviderUserToken(TokenProvider_getUserToken(cfg, s, reqKey, ms),
                    StoreKeyOf(cfg, generateClientKey(cfg.appId, cfg.appSecret, reqKey)),
                    outcome, ms)

\* what the middleware does: it answers (responded, with status and error) or
\* calls next() with req.feishuToken (0 for the empty string)
MiddlewareResult(responded, status, error, feishuToken) ==
  [responded |-> responded, status |-> status, error |-> error,
   feishuToken |-> feishuToken]

\* faulty variant: the answer 401 for every caller
UserBranch_Always401(cfg, r, reqKey, userToken) ==
  IF userToken.result.success
  THEN MiddlewareResult(FALSE, 0, "none", userToken.result.token)
  ELSE MiddlewareResult(TRUE, 401, "unauthorized", 0)

\* the branch of verifyAndGetUserToken for user mode, from the result of
\* getUserToken on (lines 102-127)
UserBranch(cfg, r, reqKey, userToken) ==
  IF userToken.result.success
  THEN MiddlewareResult(FALSE, 0, "none", userToken.result.token)
  ELSE IF isUserAuthSupported(r)
  THEN MiddlewareResult(TRUE,
          generateAuthErrorResponse(cfg, isUserAuthSupported(r), reqKey).statusCode,
          generateAuthErrorResponse(cfg, isUserAuthSupported(r), reqKey).error, 0)
  ELSE MiddlewareResult(FALSE, 0, "none", 0)

\* the handler behind the middleware, which is given req.feishuToken: without
\* a token it answers 200 with the authorization link in the body, with a
\* token it serves the call
ToolResponse(cfg, reqKey, feishuToken) ==
  IF feishuToken = 0
  THEN [status |-> 200, error |-> "none", link |-> AuthorizationLink(cfg, reqKey),
        served |-> FALSE]
  ELSE [status |-> 200, error |-> "none", link |-> NoLink, served |-> TRUE]

\* what the caller receives
CallerReceives(cfg, reqKey, result) ==
  IF result.responded
  THEN [status |-> result.status, error |-> result.error, link |-> NoLink,
        served |-> FALSE]
  ELSE ToolResponse(cfg, reqKey, result.feishuToken)

\* the requests that reach the middleware
LegacyCursor  == <<1, 4, 9>>
CurrentCursor == <<1, 5, 0>>

MiddlewareRequests ==
  { [cursor |-> CurrentCursor, authorization |-> <<"Bearer ">> \o TokenText(1),
     userKey |-> Absent, sessionId |-> 0],
    [cursor |-> CurrentCursor, authorization |-> Absent, userKey |-> Absent,
     sessionId |-> 0],
    [cursor |-> LegacyCursor, authorization |-> Absent, userKey |-> TokenText(1),
     sessionId |-> 1],
    [cursor |-> LegacyCursor, authorization |-> Absent, userKey |-> TokenText(2),
     sessionId |-> 1],
    [cursor |-> LegacyCursor, authorization |-> Absent, userKey |-> Absent,
     sessionId |-> 1],
    [cursor |-> LegacyCursor, authorization |-> Absent, userKey |-> Absent,
     sessionId |-> 2],
    [cursor |-> <<>>, authorization |-> Absent, userKey |-> Absent, sessionId |-> 0] }

\* the records a user can have in the store
MiddlewareTokenInfos ==
  { u \in StoreUserTokenInfos :
      u.refresh_token_expires_at \in {0, StartSeconds + 2 * TickSeconds} }

\* the answers of the identity provider to a refresh
RefreshOutcomes(n) ==
  { o \in Outcomes(n) :
      o.kind = "ok" => /\ o.data.expires_in = 4 * TickSeconds
                       /\ o.data.refresh_token # 0
                       /\ o.data.refresh_token_expires_in # 0 }

InitMiddleware == InitTenant /\ config = DefaultConfig

\* a request passes the middleware and reaches its handler
PassedMiddleware(r, outcome, g, t) ==
  /\ ~t.called => outcome = [kind |-> "transient"]
  /\ t.called /\ outcome.kind = "ok" => issued < MaxIssue
  /\ issued' = IF t.called /\ outcome.kind = "ok" THEN issued + 1 ELSE issued
  /\ sessionUserKeyMap' = g.map
  /\ SetStore(t.store)
  /\ probe' = [op |-> "middleware", request |-> r, now |-> clock,
               key |-> g.key, userToken |-> t.result, called |-> t.called,
               result |-> UserBranch(config, r, g.key, t),
               response |-> CallerReceives(config, g.key,
                                           UserBranch(config, r, g.key, t))]
  /\ UNCHANGED <<requestVars, clock, req, sweep, hist, sessionToUserKey, sse, conn>>

UserKeyResolved(r, outcome, g) ==
  PassedMiddleware(r, outcome, g,
     TokenProvider_getUserTokenWhole(config, Store, g.key, outcome, clock))

Middleware(r, outcome) ==
  UserKeyResolved(r, outcome, getRequestKey(config, sessionUserKeyMap, r))

\* unbindSessionUserKey(sessionId) is called
Unbind(sessionId) ==
  /\ sessionUserKeyMap' = [sessionUserKeyMap EXCEPT ![sessionId] = NoText]
  /\ probe' = [op |-> "unbindSessionUserKey", request |-> sessionId, now |-> clock]
  /\ UNCHANGED <<requestVars, tokenVars, sessionToUserKey, sse, conn>>

NextMiddleware ==
  \/ Tick
  \/ \E u \in MiddlewareTokenInfos : PutUser(1, u, 0)
  \/ \E r \in MiddlewareRequests : \E o \in RefreshOutcomes(issued + 1) : Middleware(r, o)
  \/ \E id \in SessionIds : Unbind(id)

SpecMiddleware == InitMiddleware /\ [][NextMiddleware]_vars

\* ------------------------------------------------- the scheduler's sweeps
\* Records are cached under two keys and the scheduler sweeps the store; the
\* identity provider answers each refresh.
SweepTokenInfos ==
  { [access_token |-> 1, refresh_token |-> 1,
     expires_at |-> StartSeconds + TickSeconds,
     refresh_token_expires_at |-> StartSeconds + 3 * TickSeconds,
     client_id |-> c, client_secret |-> c, generated_token |-> 0] : c \in {0, APP_ID} }
  \cup
  { [access_token |-> 1, refresh_token |-> 0, expires_at |-> 0,
     refresh_token_expires_at |-> 0,
     client_id |-> 0, client_secret |-> 0, generated_token |-> 0] }

NextSweep ==
  \/ Tick
  \/ \E k \in Keys : \E u \in SweepTokenInfos : PutUser(k, u, 0)
  \/ SweepStart
  \/ \E o \in RefreshOutcomes(issued + 1) : SweepResume(o)

\* the identity provider answers each call, with tokens or with an error:
\* weak fairness of the answer, which is enabled exactly while the sweep
\* awaits it
UpstreamAnswers ==
  \/ []<>(sweep.pc # "await")
  \/ []<><<\E o \in RefreshOutcomes(issued + 1) : SweepResume(o)>>_vars

SpecSweep == Init /\ [][NextSweep]_vars /\ UpstreamAnswers

\* ------------------------------------------------- the refresh scheduler
\* TokenRefreshManager is started and stopped at any time; its interval
\* timer fires every checkInterval and each firing sweeps the store.
checkInterval == 300     \* 5 * 60 * 1000 ms

\* setInterval: the id of the timer the runtime creates
FreeTimer(tm) ==
  CHOOSE id \in TimerIds : tm[id] = 0 /\ \A j \in TimerIds : j < id => tm[j] # 0

\* faulty variant: start() without the test of isRunning
start_NoGuard(running, id, tm, ms) ==
  [swept |-> TRUE, isRunning |-> TRUE, intervalId |-> FreeTimer(tm),
   timers |-> [tm EXCEPT ![FreeTimer(tm)] = ms + checkInterval]]

\* TokenRefreshManager.start(): whether it swept, and the fields and timers
\* it leaves
start(running, id, tm, ms) ==
  IF running
  THEN [swept |-> FALSE, isRunning |-> running, intervalId |-> id, timers |-> tm]
  ELSE [swept |-> TRUE, isRunning |-> TRUE, intervalId |-> FreeTimer(tm),
        timers |-> [tm EXCEPT ![FreeTimer(tm)] = ms + checkInterval]]

\* TokenRefreshManager.stop()
stop(running, id, tm) ==
  IF ~running
  THEN [isRunning |-> running, intervalId |-> id, timers |-> tm]
  ELSE [isRunning |-> FALSE, intervalId |-> 0,
        timers |-> IF id # 0 THEN [tm EXCEPT ![id] = 0] ELSE tm]

\* the sweep of a call of start(), if it makes one
Started(r) ==
  /\ IF r.swept THEN checkAndRefreshTokens
     ELSE UNCHANGED <<tokenVars>>
  /\ isRunning' = r.isRunning
  /\ intervalId' = r.intervalId
  /\ timers' = r.timers
  /\ probe' = [op |-> "start", now |-> clock, before |-> isRunning, swept |-> r.swept]
  /\ UNCHANGED <<tasks, config, sessionVars>>

\* start() is called
Start ==
  /\ \E id \in TimerIds : timers[id] = 0
  /\ Started(start(isRunning, intervalId, timers, clock))

Stopped(r) ==
  /\ isRunning' = r.isRunning
  /\ intervalId' = r.intervalId
  /\ timers' = r.timers
  /\ probe' = [op |-> "stop", now |-> clock, before |-> isRunning, swept |-> FALSE]
  /\ UNCHANGED <<tasks, config, sessionVars, tokenVars>>

\* stop() is called
Stop == Stopped(stop(isRunning, intervalId, timers))

\* an interval timer fires: the callback given to setInterval runs
IntervalFires(id) ==
  /\ timers[id] # 0 /\ timers[id] = clock
  /\ checkAndRefreshTokens
  /\ timers' = [timers EXCEPT ![id] = clock + checkInterval]
  /\ probe' = [op |-> "interval", now |-> clock, before |-> isRunning, swept |-> TRUE]
  /\ UNCHANGED <<tasks, config, sessionVars, isRunning, intervalId>>

\* time passes, up to the next firing of a timer
TimePasses ==
  /\ clock < StartSeconds + MaxLongTicks * TickSeconds
  /\ \A id \in TimerIds : timers[id] # 0 => timers[id] > clock
  /\ clock' = clock + TickSeconds
  /\ UNCHANGED <<requestVars, sessionVars, cache, cacheOrder, userTokenCacheFile,
                 tenantTokenCacheFile, issued, req, sweep, probe, hist>>

NextScheduler ==
  \/ TimePasses
  \/ Start
  \/ Stop
  \/ \E id \in TimerIds : IntervalFires(id)
  \/ \E u \in SweepTokenInfos : PutUser(1, u, 0)
  \/ \E o \in RefreshOutcomes(issued + 1) : SweepResume(o)

SpecScheduler == Init /\ [][NextScheduler]_vars

\* ================================================================ claims
\* The vocabulary of the claims, stated on a stored cache entry and a time
\* in seconds, independently of the operators that model the code.
UserEntry(k) == cache[<<USER_PREFIX, k>>]

\* the same entry after the step
UserEntryNext(k) == cache'[<<USER_PREFIX, k>>]

HasRefreshToken(item) == item.data.refresh_token # 0

\* the entry carries an expiry and so many seconds are left to it
SecondsLeft(item, now) == item.data.expires_at - now

\* the refresh window as the specification states it, (0, 300]
InSpecWindow(item, now) ==
  /\ item.data.expires_at # 0
  /\ 0 < SecondsLeft(item, now) /\ SecondsLeft(item, now) <= 300

\* the refresh window with its upper end excluded, (0, 300)
InOpenWindow(item, now) ==
  /\ item.data.expires_at # 0
  /\ 0 < SecondsLeft(item, now) /\ SecondsLeft(item, now) < 300

\* the refresh token is there and has not expired
Refreshable(item, now) ==
  HasRefreshToken(item) /\ item.data.refresh_token_expires_at > now

\* a get purges the entry: its refresh token has expired or, without refresh
\* information, its cache entry has
Lapsed(item, now) ==
  IF HasRefreshToken(item) /\ item.data.refresh_token_expires_at # 0
  THEN item.data.refresh_token_expires_at < now
  ELSE now > item.expiresAt

UserProbe   == probe # Null /\ probe.op = "checkUserTokenStatus"
TenantProbe == probe # Null /\ probe.op = "checkTenantTokenStatus"

\* C8 (as stated): for every stored user record and time, shouldRefresh holds
\* exactly when 0 < expiresAt - now <= 300 and canRefresh; a refreshable
\* record with expiresAt = now+200 and refreshExpiresAt = now+10000 is
\* shouldRefresh, canRefresh and isValid.
C8_ShouldRefreshClosedWindow ==
  (UserProbe /\ probe.stored # Null) =>
     /\ probe.status.shouldRefresh =
          (InSpecWindow(probe.stored, probe.now) /\ probe.status.canRefresh)
     /\ ( /\ HasRefreshToken(probe.stored)
          /\ probe.stored.data.expires_at = probe.now + 2 * TickSeconds
          /\ probe.stored.data.refresh_token_expires_at = probe.now + 100 * TickSeconds )
        => (probe.status.shouldRefresh /\ probe.status.canRefresh /\ probe.status.isValid)

\* C8 (amended): for every stored user record and time, shouldRefresh holds
\* exactly when 0 < expiresAt - now < 300 and canRefresh (the window excludes
\* both ends); the record with expiresAt = now+200, refreshExpiresAt =
\* now+10000 is shouldRefresh, canRefresh and isValid.
C8_ShouldRefreshOpenWindow ==
  (UserProbe /\ probe.stored # Null) =>
     /\ probe.status.shouldRefresh =
          (InOpenWindow(probe.stored, probe.now) /\ probe.status.canRefresh)
     /\ ( /\ HasRefreshToken(probe.stored)
          /\ probe.stored.data.expires_at = probe.now + 2 * TickSeconds
          /\ probe.stored.data.refresh_token_expires_at = probe.now + 100 * TickSeconds )
        => (probe.status.shouldRefresh /\ probe.status.canRefresh /\ probe.status.isValid)

\* C8 witness: the status of the record with expiresAt = now+200 and
\* refreshExpiresAt = now+10000 has been computed and says shouldRefresh
C8_Witness ==
  /\ UserProbe /\ probe.stored # Null
  /\ HasRefreshToken(probe.stored)
  /\ probe.stored.data.expires_at = probe.now + 2 * TickSeconds
  /\ probe.stored.data.refresh_token_expires_at = probe.now + 100 * TickSeconds
  /\ probe.status.shouldRefresh

\* C9: for every stored user record and time, canRefresh holds exactly when
\* the record has a refresh token and refreshExpiresAt > now; a record with
\* expiresAt = now-5 and no refresh token is isExpired and not canRefresh.
C9_CanRefresh ==
  (UserProbe /\ probe.stored # Null) =>
     /\ probe.status.canRefresh = Refreshable(probe.stored, probe.now)
     /\ ( /\ ~HasRefreshToken(probe.stored)
          /\ probe.stored.data.expires_at = probe.now - 5 )
        => (probe.status.isExpired /\ ~probe.status.canRefresh)

\* C9 witness: the status of a record with expiresAt = now-5 and no refresh
\* token has been computed
C9_Witness ==
  /\ UserProbe /\ probe.stored # Null
  /\ ~HasRefreshToken(probe.stored)
  /\ probe.stored.data.expires_at = probe.now - 5
  /\ probe.status.isExpired

\* C10 (as stated): for every stored record, user or tenant, and time,
\* isExpired = (expiresAt < now), false without an expiry, and isValid is the
\* negation of isExpired; without a record the status is the fixed one.
C10_ExpiredOfStoredRecord ==
  (UserProbe \/ TenantProbe) =>
     /\ probe.status.isValid = ~probe.status.isExpired
     /\ probe.stored = Null => probe.status = NoTokenStatus
     /\ probe.stored # Null =>
          probe.status.isExpired =
            (probe.stored.data.expires_at # 0 /\ probe.stored.data.expires_at < probe.now)

\* C10 (amended): the same for every record the store's get returns; a stored
\* record that the get purges (refresh token expired, or cache entry expired)
\* is reported like a missing record: not valid, expired, not refreshable.
C10_ExpiredOfReturnedRecord ==
  (UserProbe \/ TenantProbe) =>
     /\ probe.status.isValid = ~probe.status.isExpired
     /\ probe.stored = Null => probe.status = NoTokenStatus
     /\ (UserProbe /\ probe.stored # Null /\ Lapsed(probe.stored, probe.now))
          => probe.status = NoTokenStatus
     /\ (TenantProbe /\ probe.stored # Null /\ probe.now > probe.stored.expiresAt)
          => probe.status = NoTokenStatus
     /\ ( /\ probe.stored # Null
          /\ UserProbe => ~Lapsed(probe.stored, probe.now)
          /\ TenantProbe => ~(probe.now > probe.stored.expiresAt) )
        => probe.status.isExpired =
             (probe.stored.data.expires_at # 0 /\ probe.stored.data.expires_at < probe.now)

\* C10 witness: the status of a stored record that is not purged and has
\* expired has been computed
C10_Witness ==
  /\ UserProbe /\ probe.stored # Null
  /\ ~Lapsed(probe.stored, probe.now)
  /\ probe.stored.data.expires_at # 0 /\ probe.stored.data.expires_at < probe.now
  /\ probe.status.isExpired /\ ~probe.status.isValid

\* ------------------------------------------------- on-demand and sweep
\* a get returns the entry at this time
Returned(item, now) == item # Null /\ ~Lapsed(item, now)

\* the entry's access token has not expired
NotExpired(item, now) == item.data.expires_at = 0 \/ item.data.expires_at >= now

\* the call chain p takes up a request in this step / the sweep begins
Starts(p, op)  == req[p].pc = "idle" /\ req'[p].pc # "idle" /\ req'[p].op = op
Resumes(p, op) == req[p].pc = "await" /\ req[p].op = op /\ req'[p].pc = "done"
SweepBegins    == sweep.pc = "idle" /\ sweep' # sweep

\* what getUserToken does with the entry e when serving it from the cache
\* is granted exactly under the condition cond
ServesFromCacheIff(p, cond(_, _)) ==
  LET e == UserEntry(req'[p].key)
  IN  /\ (Starts(p, "getUserToken") /\ req'[p].pc = "done") =>
           IF req'[p].result.success
           THEN /\ cond(e, clock)
                /\ req'[p].result.token = e.data.access_token
                /\ req'[p].result.token # 0
                /\ issued' = issued
           ELSE /\ ~cond(e, clock)
                /\ req'[p].result.token = 0
      /\ (Starts(p, "getUserToken") /\ req'[p].pc = "await") =>
           /\ ~cond(e, clock)
           /\ Returned(e, clock)
           /\ InOpenWindow(e, clock) /\ Refreshable(e, clock)
           /\ issued' = issued
      /\ Resumes(p, "getUserToken") =>
           IF req'[p].result.success
           THEN /\ issued' = issued + 1
                /\ req'[p].result.token = issued'
                /\ UserEntryNext(req[p].key) # Null
                /\ UserEntryNext(req[p].key).data.access_token = issued'
           ELSE req'[p].result.token = 0

ValidOutsideSpecWindow(e, now) ==
  Returned(e, now) /\ NotExpired(e, now) /\ ~InSpecWindow(e, now)

ValidNotDue(e, now) ==
  Returned(e, now) /\ NotExpired(e, now)
    /\ ~(InOpenWindow(e, now) /\ Refreshable(e, now))

\* C1 (as stated): getUserToken returns success in only two cases: the
\* record is valid and outside the refresh window, and then the token is the
\* cached access token and no upstream call is made; or a refresh triggered
\* by shouldRefresh and canRefresh succeeded, and then the token is the newly
\* issued one. In every other case it returns a failure and never a token.
C1_SuccessOnlyOutsideWindow ==
  [][ServesFromCacheIff(1, ValidOutsideSpecWindow)]_vars

\* C1 (amended): getUserToken returns success in only two cases: the record
\* is valid and not shouldRefresh (outside the window, or inside it but not
\* refreshable), and then the token is the cached access token and no
\* upstream call is made; or a refresh triggered by shouldRefresh and
\* canRefresh succeeded, and then the token is the newly issued one, which
\* the store holds. In every other case it returns a failure and no token.
C1_SuccessOnlyWhenNotDue ==
  [][ServesFromCacheIff(1, ValidNotDue)]_vars

\* C1 witness: a getUserToken that refreshed has answered with the new token
C1_Witness ==
  /\ req[1].pc = "done" /\ req[1].op = "getUserToken"
  /\ req[1].tokenInfo # Null
  /\ req[1].result.success /\ req[1].result.token = issued

\* C3: for a record that is valid and outside the 300-second window, neither
\* the sweep nor an on-demand request issues an upstream refresh call, and
\* the record is left unchanged; so a sweep that runs after an on-demand
\* refresh of the key has completed does not refresh it again.
C3_FreshRecordNotRefreshed ==
  [][ \A k \in Keys :
        ( /\ ValidOutsideSpecWindow(UserEntry(k), clock)
          /\ \/ SweepBegins
             \/ \E p \in Requests :
                  /\ req'[p].key = k
                  /\ Starts(p, "getUserToken") \/ Starts(p, "getUserAccessToken") )
        => /\ UserEntryNext(k) = UserEntry(k)
           /\ issued' = issued
           /\ IF SweepBegins
              THEN sweep'.pc = "idle" /\ sweep'.refreshed = 0 /\ sweep'.failed = 0
              ELSE sweep' = sweep
           /\ \A p \in Requests : req[p].pc = "idle" => req'[p].pc # "await" ]_vars

\* C3 witness: a sweep that began after an on-demand refresh had written the
\* record has checked the key and refreshed nothing
C3_Witness ==
  /\ req[1].pc = "done" /\ req[1].result.success
  /\ req[1].result.token = issued
  /\ req[1].call.refresh_token # 0
  /\ UserEntry(1) # Null /\ UserEntry(1).data.access_token = issued
  /\ sweep.pc = "idle" /\ sweep.issuedAtStart = issued
  /\ sweep.checked = 1 /\ sweep.refreshed = 0 /\ sweep.failed = 0

\* the entry is refreshable and its access token is within 300 seconds of
\* its expiry or past it (at the second of its expiry it is neither), and
\* the client that obtained it is recorded
DueForSweep(e, now) ==
  /\ e # Null
  /\ Refreshable(e, now)
  /\ e.data.expires_at # 0
  /\ SecondsLeft(e, now) < 300 /\ SecondsLeft(e, now) # 0
  /\ e.data.client_id # 0 /\ e.data.client_secret # 0

\* the upstream's answers that are failures not indicating an invalid
\* refresh token
TransientOutcomes == { [kind |-> "transient"] }
InvalidOutcomes   == { [kind |-> "invalid"] }
OkOutcomes        == { o \in Outcomes(issued + 1) : o.kind = "ok" /\ o.data.expires_in # 0 }

\* C6: when a refresh attempted by the sweep fails with a transient error,
\* the sweep leaves the key's record unchanged in the store and counts a
\* failure; and a sweep that begins while the record is still refreshable and
\* due attempts the refresh, with the record's refresh token.
C6_SweepTransientKeepsRecord ==
  [][ /\ \A o \in TransientOutcomes :
           SweepResume(o) =>
             /\ UserEntryNext(sweep.key) = UserEntry(sweep.key)
             /\ userTokenCacheFile' = userTokenCacheFile
             /\ sweep'.failed = sweep.failed + 1
             /\ sweep'.refreshed = sweep.refreshed
      /\ \A k \in Keys :
           (SweepBegins /\ DueForSweep(UserEntry(k), clock)) =>
             /\ sweep'.pc = "await" /\ sweep'.key = k
             /\ sweep'.call.refresh_token = UserEntry(k).data.refresh_token
             /\ UserEntryNext(k) = UserEntry(k) ]_vars

\* C6 witness: a sweep has failed to refresh the key and the record is still
\* in the store, refreshable and due, for the next sweep
C6_Witness ==
  /\ sweep.pc = "idle" /\ sweep.checked = 1
  /\ sweep.failed = 1 /\ sweep.refreshed = 0
  /\ sweep.issuedAtStart = issued
  /\ DueForSweep(UserEntry(1), clock)

\* C2: when two refresh attempts for the same key overlap across the
\* upstream call, then once both have completed and at least one upstream
\* call succeeded, the store holds a record for the key carrying the token
\* material of a successful refresh: the other attempt neither evicts it nor
\* replaces it with stale data.
C2_OverlapKeepsRefreshedRecord ==
  \A k \in Keys :
    ( /\ InFlight(req, sweep, k) = 0
      /\ hist[k].overlap /\ hist[k].clean /\ hist[k].ok # {} )
    => /\ UserEntry(k) # Null
       /\ UserEntry(k).data.access_token \in hist[k].ok

C5_TransientKeepsRecord ==
  [][ \A o \in TransientOutcomes : \A p \in Requests :
        (GetUserTokenResume(p, o) \/ GetUserAccessTokenResume(p, o)) =>
          /\ UserEntryNext(req[p].key) = UserEntry(req[p].key)
          /\ ~req'[p].result.success ]_vars

\* what C7 asks of a record old that a successful refresh with the upstream
\* response data turns into the record new at the time now
RefreshedInPlace(old, new, data, now) ==
  old # Null =>
    /\ new # Null
    /\ new.data.access_token = data.access_token
    /\ new.data.expires_at = now + data.expires_in
    /\ new.data.refresh_token =
         IF data.refresh_token # 0 THEN data.refresh_token ELSE old.data.refresh_token
    /\ (data.refresh_token = 0 /\ data.refresh_token_expires_in = 0) =>
         new.data.refresh_token_expires_at = old.data.refresh_token_expires_at
    /\ new.data.generated_token = old.data.generated_token
    /\ old.data.client_id # 0 => new.data.client_id = old.data.client_id
    /\ old.data.client_secret # 0 => new.data.client_secret = old.data.client_secret
    /\ Refreshable(old, now) => Refreshable(new, now)

\* C7: a successful refresh mutates the record in place: afterwards it has
\* the new access token and expiresAt, its refresh token is replaced only if
\* the response carries a new one and otherwise keeps the previous value,
\* every other field is preserved, and a record that was refreshable before
\* is refreshable after.
C7_RefreshMutatesInPlace ==
  [][ \A o \in OkOutcomes :
        /\ SweepResume(o) =>
             RefreshedInPlace(UserEntry(sweep.key), UserEntryNext(sweep.key), o.data, clock)
        /\ \A p \in Requests :
             (GetUserTokenResume(p, o) \/ GetUserAccessTokenResume(p, o)) =>
               RefreshedInPlace(UserEntry(req[p].key), UserEntryNext(req[p].key), o.data, clock) ]_vars

\* ------------------------------------------------------- tenant status
\* a user record with the expiry e whose refresh token is good at the time now
RefreshableUserInfo(e, now) ==
  [access_token |-> 1, refresh_token |-> 1, expires_at |-> e,
   refresh_token_expires_at |-> now + 1,
   client_id |-> 0, client_secret |-> 0, generated_token |-> 0]

\* C11: for every tenant record and time now, canRefresh is false, and
\* shouldRefresh is true exactly when expiresAt - now lies in the 300-second
\* window, which is the window of a user record of the same expiry that can
\* be refreshed; nothing else of the record matters.
C11_TenantStatus ==
  (TenantProbe /\ probe.info # Null) =>
     /\ probe.status.canRefresh = FALSE
     /\ probe.status.shouldRefresh =
          ( /\ probe.info.expires_at # 0
            /\ 0 < probe.info.expires_at - probe.now
            /\ probe.info.expires_at - probe.now < 300 )
     /\ probe.status.shouldRefresh =
          UserStatusOf(RefreshableUserInfo(probe.info.expires_at, probe.now),
                       probe.now).shouldRefresh

\* C11 witness: the status of a tenant record inside the window has been
\* computed and says shouldRefresh, not canRefresh
C11_Witness ==
  /\ TenantProbe /\ probe.info # Null
  /\ probe.info.expires_at = probe.now + 2 * TickSeconds
  /\ probe.status.shouldRefresh /\ ~probe.status.canRefresh

\* ------------------------------------------------------------ the store
UserFileEntry(k) == userTokenCacheFile[<<USER_PREFIX, k>>]

UserFileEntryNext(k) == userTokenCacheFile'[<<USER_PREFIX, k>>]

TenantEntry(k) == cache[<<TENANT_PREFIX, k>>]

TenantEntryNext(k) == cache'[<<TENANT_PREFIX, k>>]

TenantFileEntry(k) == tenantTokenCacheFile[<<TENANT_PREFIX, k>>]

TenantFileEntryNext(k) == tenantTokenCacheFile'[<<TENANT_PREFIX, k>>]

\* the entry's refresh expiry is set and lies before now
RefreshLapsed(item, now) ==
  /\ item.data.refresh_token_expires_at # 0
  /\ item.data.refresh_token_expires_at < now

\* a get of the user record of k answers not-found and leaves neither the map
\* nor the user file with an entry for k
UserGetPurges(k) ==
  /\ GetUserInfo(k) => probe'.result = Null
  /\ GetUserToken(k) => probe'.result = 0
  /\ UserEntryNext(k) = Null
  /\ UserFileEntryNext(k) = Null

\* C12 as stated: for every stored user record whose refresh expiry lies
\* before now, the next getUserTokenInfo or getUserToken of its key answers
\* not-found and removes it from the map and from the user file, whatever the
\* cache entry's own expiry.
C12_LapsedRecordPurged ==
  [][\A k \in StoreKeys :
       ( /\ GetUserInfo(k) \/ GetUserToken(k)
         /\ UserEntry(k) # Null
         /\ RefreshLapsed(UserEntry(k), clock) )
       => UserGetPurges(k)]_vars

\* C12, amended: for every stored user record that has a refresh token and
\* whose refresh expiry lies before now, the next getUserTokenInfo or
\* getUserToken of its key answers not-found and removes it from the map and
\* from the user file, whatever the cache entry's own expiry.
C12_LapsedRefreshTokenPurged ==
  [][\A k \in StoreKeys :
       ( /\ GetUserInfo(k) \/ GetUserToken(k)
         /\ UserEntry(k) # Null
         /\ HasRefreshToken(UserEntry(k))
         /\ RefreshLapsed(UserEntry(k), clock) )
       => UserGetPurges(k)]_vars

\* a record with a lapsed refresh token and a cache entry still running was
\* read and is gone
C12_Witness ==
  /\ probe # Null
  /\ probe.op = "getUserTokenInfo"
  /\ probe.stored # Null
  /\ HasRefreshToken(probe.stored)
  /\ RefreshLapsed(probe.stored, probe.now)
  /\ probe.stored.expiresAt > probe.now
  /\ probe.result = Null
  /\ UserEntry(probe.key) = Null
  /\ UserFileEntry(probe.key) = Null

\* the last call was a put under k a moment ago, and this step reads k back
UserPutThenGet(k) ==
  /\ probe # Null
  /\ probe.op = "cacheUserToken" /\ probe.key = k /\ probe.now = clock
  /\ GetUserInfo(k)

TenantPutThenGet(k) ==
  /\ probe # Null
  /\ probe.op = "cacheTenantToken" /\ probe.key = k /\ probe.now = clock
  /\ GetTenantInfo(k)

\* whether a record put at time now is still to be had at that time: a user
\* record with a refresh token and its expiry by that expiry; any other record
\* by the explicit TTL or, without one, by the expiry it carries
UserLiveAtPut(r, ttl, now) ==
  IF r.refresh_token # 0 /\ r.refresh_token_expires_at # 0
  THEN r.refresh_token_expires_at >= now
  ELSE \/ ttl # 0
       \/ IF r.refresh_token_expires_at # 0 THEN r.refresh_token_expires_at >= now
          ELSE IF r.expires_at # 0 THEN r.expires_at >= now
          ELSE TRUE

TenantLiveAtPut(r, ttl, now) ==
  \/ ttl # 0
  \/ r.expires_at = 0
  \/ r.expires_at >= now

\* C13 as stated: for every user or tenant record r and key k, a put of r
\* under k followed at once by a get of k in the same namespace returns a
\* record with the field values of r.
C13_RoundTrip ==
  [][\A k \in StoreKeys :
       /\ UserPutThenGet(k) => probe'.result = probe.tokenInfo
       /\ TenantPutThenGet(k) => probe'.result = probe.tokenInfo]_vars

\* C13, amended: a put of r under k followed at once by a get of k in the
\* same namespace returns a record with the field values of r, provided r is
\* not already lapsed when it is put; the get of a record put lapsed answers
\* not-found.
C13_RoundTripOfLiveRecord ==
  [][\A k \in StoreKeys :
       /\ UserPutThenGet(k) =>
            probe'.result =
              IF UserLiveAtPut(probe.tokenInfo, probe.customTtl, clock)
              THEN probe.tokenInfo ELSE Null
       /\ TenantPutThenGet(k) =>
            probe'.result =
              IF TenantLiveAtPut(probe.tokenInfo, probe.customTtl, clock)
              THEN probe.tokenInfo ELSE Null]_vars

\* a record with a refresh token and both expiries was put and read back
C13_Witness ==
  /\ probe # Null
  /\ probe.op = "getUserTokenInfo"
  /\ probe.stored # Null
  /\ probe.stored.timestamp = probe.now
  /\ probe.result = probe.stored.data
  /\ probe.result.refresh_token # 0
  /\ probe.result.refresh_token_expires_at # 0
  /\ probe.result.expires_at # 0

\* the entries the step removes from the map
Evicted == {ck \in CacheKeys : cache[ck] # Null /\ cache'[ck] = Null}

\* the entry has a refresh token whose expiry has not passed
RefreshNotLapsed(item, now) ==
  /\ HasRefreshToken(item)
  /\ item.data.refresh_token_expires_at # 0
  /\ item.data.refresh_token_expires_at >= now

\* C14: cleanExpiredTokens keeps every user record that has a refresh token
\* with refresh expiry >= now, whatever the access token's expiry, so that a
\* user record is evicted only when its refresh capability has lapsed; it
\* evicts a tenant record exactly when the expiry of its cache entry has
\* passed; it changes no entry it keeps, and returns the number of entries
\* it removed.
C14_SweepEviction ==
  [][Clean =>
       /\ \A k \in Keys :
            /\ (UserEntry(k) # Null /\ RefreshNotLapsed(UserEntry(k), clock))
                 => UserEntryNext(k) = UserEntry(k)
            /\ TenantEntry(k) # Null =>
                 IF TenantEntry(k).expiresAt <= clock
                 THEN TenantEntryNext(k) = Null
                 ELSE TenantEntryNext(k) = TenantEntry(k)
       /\ \A ck \in CacheKeys : cache'[ck] \in {Null, cache[ck]}
       /\ probe'.result = Cardinality(Evicted)]_vars

\* a sweep has removed an entry and kept a user record whose access token
\* has expired and whose refresh token has not
C14_Witness ==
  /\ probe # Null
  /\ probe.op = "cleanExpiredTokens" /\ probe.now = clock
  /\ probe.result >= 1
  /\ \E k \in StoreKeys :
       /\ UserEntry(k) # Null
       /\ RefreshNotLapsed(UserEntry(k), clock)
       /\ UserEntry(k).data.expires_at # 0
       /\ UserEntry(k).data.expires_at < clock
       /\ UserEntry(k).expiresAt <= clock

\* each file holds the entries of its namespace as the map c has them, and
\* nothing else
SnapshotsHold(c, userFile, tenantFile) ==
  \A ck \in CacheKeys :
    /\ userFile[ck] = IF ck[1] = USER_PREFIX THEN c[ck] ELSE Null
    /\ tenantFile[ck] = IF ck[1] = TENANT_PREFIX THEN c[ck] ELSE Null

\* C15: after every call of the store (put, delete, clear, sweep, get) the
\* file of each namespace holds exactly the entries the map has in that
\* namespace, and a store constructed from the files holds exactly the
\* entries the previous instance held.
C15_SnapshotsFollowStore ==
  [][ /\ SnapshotsHold(cache', userTokenCacheFile', tenantTokenCacheFile')
      /\ Construct => cache' = cache ]_vars

\* a store holding a user and a tenant record was constructed from the files
C15_Witness ==
  /\ probe # Null
  /\ probe.op = "constructor"
  /\ \E k \in StoreKeys : UserEntry(k) # Null /\ TenantEntry(k) # Null
  /\ SnapshotsHold(cache, userTokenCacheFile, tenantTokenCacheFile)

UserOps == {"cacheUserToken", "getUserTokenInfo", "getUserToken",
            "removeUserToken", "clearUserTokens"}

TenantOps == {"cacheTenantToken", "getTenantTokenInfo",
              "removeTenantToken", "clearTenantTokens"}

\* C16: for one and the same key k, a put, delete, get or clear of the user
\* namespace leaves the tenant record under k and the tenant file unchanged,
\* and a put, delete, get or clear of the tenant namespace leaves the user
\* record under k unchanged.
C16_NamespacesApart ==
  [][probe' # Null =>
       /\ probe'.op \in UserOps =>
            /\ \A k \in StoreKeys : TenantEntryNext(k) = TenantEntry(k)
            /\ tenantTokenCacheFile' = tenantTokenCacheFile
       /\ probe'.op \in TenantOps =>
            \A k \in StoreKeys : UserEntryNext(k) = UserEntry(k)]_vars

\* the user record under k was deleted and the tenant record under k is there
C16_Witness ==
  /\ probe # Null
  /\ probe.op = "removeUserToken" /\ probe.result = TRUE
  /\ UserEntry(probe.key) = Null
  /\ TenantEntry(probe.key) # Null
  /\ TenantFileEntry(probe.key) = TenantEntry(probe.key)

\* the expiry a user record put without a TTL gives its cache entry
UserFallbackExpiry(r, now) ==
  IF r.refresh_token_expires_at # 0 THEN r.refresh_token_expires_at
  ELSE IF r.expires_at # 0 THEN r.expires_at
  ELSE now + 2 * 60 * 60

TenantFallbackExpiry(r, now) ==
  IF r.expires_at # 0 THEN r.expires_at ELSE now + 2 * 60 * 60

\* C18: a put of a user record without an explicit TTL sets the expiry of the
\* cache entry to the record's refresh expiry; when that is absent, to the
\* record's access expiry; when both are absent, to now plus two hours; a
\* put of a tenant record sets it to the record's expiry and, when that is
\* absent, to now plus two hours.
C18_ExpiryFallback ==
  (probe # Null /\ probe.customTtl = 0) =>
     /\ probe.op = "cacheUserToken" =>
          UserEntry(probe.key).expiresAt = UserFallbackExpiry(probe.tokenInfo, probe.now)
     /\ probe.op = "cacheTenantToken" =>
          TenantEntry(probe.key).expiresAt = TenantFallbackExpiry(probe.tokenInfo, probe.now)

\* a user record with both expiries was put without a TTL and its cache entry
\* ends with the refresh token
C18_Witness ==
  /\ probe # Null
  /\ probe.op = "cacheUserToken" /\ probe.customTtl = 0
  /\ probe.tokenInfo.expires_at # 0
  /\ probe.tokenInfo.refresh_token_expires_at # 0
  /\ probe.tokenInfo.refresh_token_expires_at # probe.tokenInfo.expires_at
  /\ UserEntry(probe.key) # Null
  /\ UserEntry(probe.key).data = probe.tokenInfo
  /\ UserEntry(probe.key).expiresAt = probe.tokenInfo.refresh_token_expires_at

Resolve(id) == sessionToUserKey[id]

ResolveNext(id) == sessionToUserKey'[id]

\* the same for the registry of the request-key module
ResolveRequestKey(id) == sessionUserKeyMap[id]

ResolveRequestKeyNext(id) == sessionUserKeyMap'[id]

\* C19: once the connection of session id c has closed, resolve(c) is
\* not-found: the registry holds bindings only for connections that have not
\* closed.
C19_ClosedConnectionUnbound ==
  \A id \in SessionIds : conn[id] = "closed" => Resolve(id) = 0

\* C20: after removeSession(id) / unbindSessionUserKey(id) a resolve of id is
\* not-found, and stays so until the next bind of id; a bind replaces the
\* binding of id, so that a resolve returns the user key bound last.
C20_UnbindRemovesBinding ==
  [][\A id \in SessionIds :
       /\ RemoveSession(id) => ResolveNext(id) = 0
       /\ UnbindSessionUserKey(id) => ResolveRequestKeyNext(id) = 0
       /\ (Resolve(id) = 0 /\ ResolveNext(id) # 0)
            => \E k \in UserKeys : CreateSession(id, k)
       /\ (ResolveRequestKey(id) = 0 /\ ResolveRequestKeyNext(id) # 0)
            => \E k \in UserKeys : BindSessionUserKey(id, k)
       /\ \A k \in UserKeys :
            /\ CreateSession(id, k) => ResolveNext(id) = k
            /\ BindSessionUserKey(id, k) => ResolveRequestKeyNext(id) = k
       /\ GetUserKey(id) => probe'.userKey = Resolve(id)
       /\ GetUserKeyBySessionId(id) => probe'.userKey = ResolveRequestKey(id)]_vars

\* a session was unbound, another one is still bound
C20_Witness ==
  /\ probe # Null
  /\ probe.op = "removeSession" /\ probe.result = TRUE
  /\ Resolve(probe.key) = 0
  /\ \E id \in SessionIds : Resolve(id) # 0

TenantServes(r, o) == verifyAndGetUserToken(config, Store, r, o, clock)

\* C22: in a deployment in tenant mode any two requests, whatever userKey,
\* sessionId or bearer value they carry, resolve to the same ClientKey and
\* are served from the same cached tenant record: every request gets the
\* request key, the ClientKey, the token and the store that the request
\* without any identity gets.
C22_TenantIgnoresIdentity ==
  isAuthForTenant(config) =>
    \A r \in IncomingRequests :
      /\ getRequestKey(config, sessionUserKeyMap, r)
           = getRequestKey(config, sessionUserKeyMap, AnonymousRequest)
      /\ AuthUtils_generateClientKey(config, r.userKey)
           = AuthUtils_generateClientKey(config, Absent)
      /\ \A o \in TenantOutcomes(issued + 1) :
           TenantServes(r, o) = TenantServes(AnonymousRequest, o)

\* a request that carries a user key, a session id and a bearer value has
\* been served the token of the cached tenant record
C22_Witness ==
  /\ probe # Null /\ probe.op = "verifyAndGetUserToken"
  /\ probe.request.userKey = <<"u">> /\ probe.request.sessionId = 1
  /\ probe.request.authorization # Absent
  /\ probe.result.status = 200 /\ ~probe.result.fetched
  /\ cache[<<TENANT_PREFIX, 1>>] # Null
  /\ cache[<<TENANT_PREFIX, 1>>].data.app_access_token = probe.result.feishuToken

\* the number of places in which two input triples differ
Differences(t1, t2) == Cardinality({ i \in 1..3 : t1[i] # t2[i] })

\* an absent user key and the empty user key taken as the same input
NormalInputs(t) == <<t[1], t[2], IF t[3] = Absent THEN NoText ELSE t[3]>>

KeyProbe == probe # Null /\ probe.op = "generateClientKey"

AuthUtilsKeyProbe == probe # Null /\ probe.op = "AuthUtils.generateClientKey"

\* C23 as stated: generateClientKey is a pure function of (appId, appSecret,
\* userKey): the key just derived is the key of every equal triple, and not
\* the key of any triple that differs from it in exactly one input; this for
\* TokenCacheManager.generateClientKey and, under any configuration of these
\* appId and appSecret, for AuthUtils.generateClientKey.
C23_ClientKeyPure ==
  /\ KeyProbe =>
       \A t \in KeyInputs :
         /\ t = probe.args => generateClientKey(t[1], t[2], t[3]) = probe.result
         /\ Differences(t, probe.args) = 1 =>
              generateClientKey(t[1], t[2], t[3]) # probe.result
  /\ AuthUtilsKeyProbe =>
       \A cfg \in Configs : \A u \in UserKeyTexts :
         LET t == <<cfg.appId, cfg.appSecret, u>>
         IN  /\ t = probe.args => AuthUtils_generateClientKey(cfg, u) = probe.result
             /\ Differences(t, probe.args) = 1 =>
                  AuthUtils_generateClientKey(cfg, u) # probe.result

\* C23, amended: the same with an absent and an empty userKey taken as one
\* input, and for AuthUtils.generateClientKey among the deployments in user
\* mode; in tenant mode its key is that of (appId, appSecret) whatever the
\* userKey.
C23_ClientKeyPureInUserMode ==
  /\ KeyProbe =>
       \A t \in KeyInputs :
         /\ NormalInputs(t) = NormalInputs(probe.args) =>
              generateClientKey(t[1], t[2], t[3]) = probe.result
         /\ Differences(NormalInputs(t), NormalInputs(probe.args)) = 1 =>
              generateClientKey(t[1], t[2], t[3]) # probe.result
  /\ AuthUtilsKeyProbe /\ ~isAuthForTenant(config) =>
       \A cfg \in Configs : \A u \in UserKeyTexts :
         LET t == <<cfg.appId, cfg.appSecret, u>>
         IN  ~isAuthForTenant(cfg) =>
               /\ NormalInputs(t) = NormalInputs(probe.args) =>
                    AuthUtils_generateClientKey(cfg, u) = probe.result
               /\ Differences(NormalInputs(t), NormalInputs(probe.args)) = 1 =>
                    AuthUtils_generateClientKey(cfg, u) # probe.result
  /\ AuthUtilsKeyProbe /\ isAuthForTenant(config) =>
       \A u \in UserKeyTexts : AuthUtils_generateClientKey(config, u) = probe.result

\* a key has been derived for a user key, by a deployment in user mode
C23_Witness ==
  /\ AuthUtilsKeyProbe /\ ~isAuthForTenant(config)
  /\ probe.args[3] = <<"u">>
  /\ probe.result = sha256(config.appId \o <<":">> \o config.appSecret \o <<":", "u">>)

\* the user keys of end users: present and not empty
EndUserKeys == UserKeyTexts \ {Absent, NoText}

\* C24 as stated: for all triples (appId, appSecret, userKey) of end users
\* that differ, the derived ClientKeys differ.
C24_NoCollision ==
  KeyProbe /\ probe.args[3] \in EndUserKeys =>
    \A t \in KeyInputs :
      t[3] \in EndUserKeys /\ t # probe.args =>
        generateClientKey(t[1], t[2], t[3]) # probe.result

\* the ClientKey TokenProvider.getUserToken(reqKey) looks up
UserClientKey(reqKey) == generateClientKey(config.appId, config.appSecret, reqKey)

\* C24, amended: within a deployment in user mode (appId and appSecret
\* fixed), two requests that resolve to different request keys are looked up
\* under different ClientKeys.
C24_NoCollisionWithinDeployment ==
  probe # Null /\ probe.op = "getRequestKey" /\ ~isAuthForTenant(config) =>
    \A r \in IncomingRequests :
      LET reqKey == getRequestKey(config, sessionUserKeyMap, r).key
      IN  reqKey # probe.result => UserClientKey(reqKey) # UserClientKey(probe.result)

\* a request has resolved to a user key, while another request resolves to
\* another user key
C24_Witness ==
  /\ probe # Null /\ probe.op = "getRequestKey" /\ ~isAuthForTenant(config)
  /\ probe.result = <<"v">>
  /\ \E r \in IncomingRequests :
       getRequestKey(config, sessionUserKeyMap, r).key = <<"u">>

\* ------------------------------------------------------ the OAuth gateway
\* a callback whose state decodes to a blob built more than 5 minutes ago
StaleCallback ==
  /\ probe # Null
  /\ probe.op \in {"handleFeishuCallback", "callback"}
  /\ Truthy(probe.request.code)
  /\ ~decodeBase64Json(probe.request.state).threw
  /\ probe.now - decodeBase64Json(probe.request.state).json.timestamp > STATE_MAX_AGE

\* C25: every callback whose decoded state blob carries a timestamp more than
\* 5 minutes older than the current time is rejected with an expiry error,
\* without a redirect to the caller, an upstream code exchange or a store
\* write, whatever the authorization code.
C25_StaleStateRejected ==
  StaleCallback =>
    /\ probe.response.kind # "redirect"
    /\ probe.response.error \in {"authorization request expired", "fail"}
    /\ ~probe.exchanged
    /\ ~probe.changed

\* the same of the callback of the gateway alone
C25_GatewayRejectsStaleState ==
  StaleCallback /\ probe.op = "handleFeishuCallback" =>
    probe.response = TextError(400, "authorization request expired")

\* a refresh grant whose refresh token the store holds no record of
UnknownRefreshGrant ==
  /\ probe # Null
  /\ probe.op = "handleTokenExchange"
  /\ probe.request.grant_type = <<"refresh_token">>
  /\ probe.request.refresh_token = UnknownToken

\* C26: a token request with grant_type = refresh_token whose refresh token
\* has no cached record is answered with the OAuth error invalid_grant, not
\* with server_error, and leaves the token store unchanged.
C26_UnknownRefreshTokenInvalidGrant ==
  UnknownRefreshGrant =>
    /\ probe.response = JsonError(400, "invalid_grant")
    /\ ~probe.changed

\* what the handler does answer: server_error, the store left as it was
C26_UnknownRefreshTokenServerError ==
  UnknownRefreshGrant =>
    /\ probe.response = JsonError(500, "server_error")
    /\ ~probe.exchanged
    /\ ~probe.changed

\* a malformed request to the authorization or the token endpoint
MalformedRequest ==
  /\ probe # Null
  /\ \/ /\ probe.op = "handleAuthorization"
        /\ ~Truthy(probe.request.redirect_uri)
     \/ /\ probe.op = "handleTokenExchange"
        /\ \/ ~Truthy(probe.request.grant_type)
           \/ probe.request.grant_type \notin {<<"authorization_code">>, <<"refresh_token">>}
           \/ /\ probe.request.grant_type = <<"authorization_code">>
              /\ ~Truthy(probe.request.code)
           \/ /\ probe.request.grant_type = <<"refresh_token">>
              /\ ~Truthy(probe.request.refresh_token)

\* C27: a malformed OAuth request (an authorization request without
\* redirect_uri; a token request without grant_type, with an unknown
\* grant_type, or without the credential of its grant) is answered with an
\* OAuth error response and causes no upstream call, no redirect and no
\* change of the token store.
C27_MalformedRequestRejected ==
  MalformedRequest =>
    /\ probe.response.kind = "json"
    /\ probe.response.status = 400
    /\ probe.response.error \in {"invalid_request", "unsupported_grant_type"}
    /\ ~probe.exchanged
    /\ ~probe.minted
    /\ ~probe.changed

\* a token request with an unknown grant_type has been rejected
C27_Witness ==
  /\ MalformedRequest
  /\ probe.op = "handleTokenExchange"
  /\ probe.response = JsonError(400, "unsupported_grant_type")

\* the callback of the gateway was given, with a code, the blob the
\* authorization step builds for request a at time t, not more than
\* 5 minutes later
RoundTrip(a, t) ==
  /\ probe # Null
  /\ probe.op = "handleFeishuCallback"
  /\ ~Truthy(probe.request.error)
  /\ Truthy(probe.request.code)
  /\ Truthy(a.redirect_uri)
  /\ probe.request.state = handleAuthorization(config, a, t).blob
  /\ probe.now - t <= STATE_MAX_AGE

\* the caller is sent back to its redirect_uri, with the code and its state
SentBack(a) ==
  /\ probe.response.kind = "redirect"
  /\ probe.response.location = a.redirect_uri
  /\ probe.response.code = probe.request.code
  /\ probe.response.state = a.state
  /\ ~probe.exchanged
  /\ ~probe.changed

\* C28 as stated: for every authorization request with redirect_uri R and
\* state S, the blob of the authorization step, presented unmodified to the
\* callback within 5 minutes with a code C, makes the gateway redirect to R
\* with code = C and state = S, the two steps keeping no record.
C28_RoundTrip ==
  \A a \in AuthorizeRequests : \A t \in BlobTimes :
    RoundTrip(a, t) => SentBack(a)

\* C28, amended: the same for every authorization request whose redirect_uri
\* is an absolute URL; for any other redirect_uri the callback answers
\* status 400 and redirects nowhere.
C28_RoundTripOfAbsoluteUrl ==
  \A a \in AuthorizeRequests : \A t \in BlobTimes :
    RoundTrip(a, t) =>
      IF IsAbsoluteUrl(a.redirect_uri) THEN SentBack(a)
      ELSE /\ probe.response = TextError(400, "state decoding failed")
           /\ ~probe.exchanged
           /\ ~probe.changed

\* a blob exactly 5 minutes old has taken the caller back with its state
C28_Witness ==
  \E a \in AuthorizeRequests : \E t \in BlobTimes :
    /\ RoundTrip(a, t)
    /\ probe.now - t = STATE_MAX_AGE
    /\ a.state = CallerState
    /\ SentBack(a)

\* a token request has been answered with a token
TokenIssued ==
  /\ probe # Null
  /\ probe.op = "handleTokenExchange"
  /\ probe.response.status = 200

GatewayStep ==
  /\ probe # Null
  /\ probe.op \in {"handleAuthorization", "handleFeishuCallback", "handleTokenExchange"}

\* the step failed: it neither redirected nor answered with a token
StepFailed == GatewayStep /\ probe.response.kind # "redirect" /\ probe.response.status # 200

\* a token is minted and a record written only by a step whose exchange
\* with the identity provider returned an access token
MintedAfterExchange ==
  GatewayStep /\ (probe.minted \/ probe.changed) =>
    /\ probe.op = "handleTokenExchange"
    /\ probe.exchanged
    /\ Issues(probe.upstream)
    /\ probe.minted
    /\ probe.changed

TenantRecordOf(s, ms) ==
  getTenantTokenInfo(s, KeyOf(config, generateClientKey(config.appId, config.appSecret, Absent)),
                     ms).info

\* the record is valid and has 300 seconds or more, or none, left
ValidOutsideWindow(g, now) ==
  /\ g # Null
  /\ g.expires_at >= now
  /\ ~(0 < g.expires_at - now /\ g.expires_at - now < 300)

\* a step of getTenantToken, called through the middleware in tenant mode
TenantTokenStep ==
  /\ clock' = clock
  /\ probe' # Null /\ probe'.op = "verifyAndGetUserToken"

StoreAfter == [cache |-> cache', order |-> cacheOrder',
               userFile |-> userTokenCacheFile', tenantFile |-> tenantTokenCacheFile']

\* the tenant token was fetched with success and the probe still shows it
TenantFetched ==
  /\ probe # Null /\ probe.op = "verifyAndGetUserToken"
  /\ probe.result.fetched /\ probe.upstream.kind = "ok"

C32_Served ==
  TenantTokenStep =>
    /\ ValidOutsideWindow(TenantRecordOf(Store, clock), clock) =>
         /\ ~probe'.result.fetched
         /\ probe'.result.status = 200
         /\ probe'.result.feishuToken = TenantRecordOf(Store, clock).app_access_token
         /\ TenantRecordOf(StoreAfter, clock) = TenantRecordOf(Store, clock)
    /\ ~ValidOutsideWindow(TenantRecordOf(Store, clock), clock) =>
         /\ probe'.result.fetched
         /\ probe'.upstream.kind = "ok" =>
              /\ probe'.result.feishuToken = probe'.upstream.token
              /\ TenantRecordOf(StoreAfter, clock) =
                   [app_access_token |-> probe'.upstream.token,
                    expires_at |-> clock + probe'.upstream.expires_in]
         /\ probe'.upstream.kind # "ok" =>
              /\ probe'.result.status = 500
              /\ TenantRecordOf(StoreAfter, clock) = TenantRecordOf(Store, clock)

\* the next getTenantToken after a fetch is served from the cache
NextTenantTokenServed ==
  /\ ~TokenProvider_getTenantToken(config, Store, [kind |-> "transient", token |-> 0,
                                                   expires_in |-> 0], clock).fetched
  /\ TokenProvider_getTenantToken(config, Store, [kind |-> "transient", token |-> 0,
                                                  expires_in |-> 0], clock).result
       = Success(probe.upstream.token)

\* C32 as stated: getTenantToken serves the cached tenant token without an
\* upstream call when the record is valid and outside the 300-second window,
\* fetches otherwise and replaces the record, and the next getTenantToken
\* within the validity of the new token is served from the cache.
C32_NextServedWithinValidity ==
  (TenantFetched /\ clock <= probe.now + probe.upstream.expires_in) =>
     NextTenantTokenServed

\* C32, amended: ... and the next getTenantToken is served from the cache
\* while the new token is valid and not inside the window, that is while
\* 300 seconds or more, or none, of its validity are left.
C32_TenantToken ==
  /\ [][C32_Served]_vars
  /\ []((TenantFetched /\ clock <= probe.now + probe.upstream.expires_in
           /\ ~(0 < probe.now + probe.upstream.expires_in - clock
                /\ probe.now + probe.upstream.expires_in - clock < 300)) =>
        NextTenantTokenServed)

\* a token was fetched inside the window of the record before it, and a
\* later call, 300 seconds before its end, can be served from the cache
C32_Witness ==
  /\ TenantFetched
  /\ probe.now > StartSeconds
  /\ probe.upstream.token = 2
  /\ clock = probe.now + TickSeconds
  /\ clock + 300 = probe.now + probe.upstream.expires_in
  /\ NextTenantTokenServed

\* a sweep starts while the store holds a record under key 1 whose status
\* asks for a refresh
SweepSelects ==
  /\ sweep.pc = "idle" /\ sweep' # sweep
  /\ getAllUserTokenKeys(Store) = <<1>>
  /\ needsRefresh(checkUserTokenStatus(Store, 1, clock).status)

LacksRefreshField(s) ==
  LET info == getUserTokenInfo(s, 1, clock).info
  IN  /\ info # Null
      /\ \/ info.refresh_token = 0
         \/ info.client_id = 0
         \/ info.client_secret = 0

\* C34: a record that the sweep selects for refresh but that lacks a field
\* required to refresh (refresh token, client id or client secret) is
\* skipped: no upstream call is made for it and the record stays in the
\* store as it was, in memory and in the snapshot.
C34_SkippedUnchanged ==
  [][(SweepSelects /\ LacksRefreshField(Store)) =>
       /\ sweep'.pc = "idle"
       /\ sweep'.checked = 1 /\ sweep'.refreshed = 0 /\ sweep'.failed = 1
       /\ issued' = issued
       /\ cache' = cache
       /\ userTokenCacheFile' = userTokenCacheFile]_vars

\* a sweep has passed over a record without client id that was due
C34_Witness ==
  /\ sweep.pc = "idle"
  /\ sweep.checked = 1 /\ sweep.failed = 1 /\ sweep.refreshed = 0
  /\ sweep.issuedAtStart = issued
  /\ LacksRefreshField(Store)
  /\ cache[<<USER_PREFIX, 1>>].data.client_id = 0
  /\ cache[<<USER_PREFIX, 1>>].data.refresh_token # 0
  /\ needsRefresh(checkUserTokenStatus(Store, 1, clock).status)

\* the keys a sweep has gone through and those still before it
SweepTotal(sw) == sw.checked + Len(sw.keys)

\* a step of a sweep: every enumerated key is checked or still to be checked,
\* and a refresh that fails is counted and the sweep goes on
SweepStepsOn ==
  /\ (sweep.pc = "idle" /\ sweep' # sweep) =>
        SweepTotal(sweep') = Len(getAllUserTokenKeys(Store))
  /\ (sweep.pc = "await" /\ sweep' # sweep) =>
        /\ SweepTotal(sweep') = SweepTotal(sweep)
        /\ sweep'.refreshed + sweep'.failed > sweep.refreshed + sweep.failed
        /\ issued' = issued => sweep'.failed > sweep.failed

ActiveTimers == { id \in TimerIds : timers[id] # 0 }

\* a call of start() or stop(), or a firing, has just been made
SchedulerStep(op) ==
  /\ probe' # Null /\ probe'.op = op
  /\ probe' # probe \/ schedulerVars' # schedulerVars

\* what start() and the timer do in a step
SchedulerSteps ==
  /\ (SchedulerStep("start") /\ ~isRunning) =>
        /\ probe'.swept
        /\ sweep'.issuedAtStart = issued /\ sweep'.checked = Len(getAllUserTokenKeys(Store))
        /\ isRunning'
        /\ ActiveTimers' = {intervalId'}
        /\ timers'[intervalId'] = clock + 300
  /\ (SchedulerStep("start") /\ isRunning) =>
        /\ ~probe'.swept
        /\ UNCHANGED <<schedulerVars, tokenVars>>
  /\ (SchedulerStep("stop") /\ isRunning) =>
        /\ ~isRunning' /\ ActiveTimers' = {}
  /\ SchedulerStep("interval") =>
        /\ isRunning /\ timers[intervalId] = clock
        /\ timers'[intervalId] = clock + 300
        /\ sweep'.issuedAtStart = issued

\* C35: start() sweeps at once and then once per interval of 5 minutes,
\* start() while running has no effect, and after any sequence of start()
\* and stop() at most one interval timer is set, isRunning being true
\* exactly when one is.
C35_OneTimer ==
  /\ [][SchedulerSteps]_vars
  /\ [](Cardinality(ActiveTimers) <= 1)
  /\ [](isRunning <=> ActiveTimers # {})
  /\ [](isRunning <=> intervalId # 0)
  /\ [](isRunning => ActiveTimers = {intervalId})

\* the scheduler was started, stopped and started again, its timer has fired
\* a second time and start() was then called once more
C35_Witness ==
  /\ probe # Null /\ probe.op = "start" /\ probe.before /\ ~probe.swept
  /\ isRunning /\ intervalId # 0
  /\ clock = StartSeconds + 7 * TickSeconds
  /\ timers[intervalId] = StartSeconds + 10 * TickSeconds
  /\ sweep.checked = 1

\* a request ended by an exception: getUserAccessToken has no failure result,
\* it throws AuthRequiredError
Raised(rq) ==
  /\ rq.pc = "done" /\ ~rq.result.success
  /\ rq.result.error = "AuthRequiredError"

\* there is no record under the key, or its access token is expired
MissingOrExpired(k) ==
  LET st == checkUserTokenStatus(Store, k, clock).status
  IN  st = NoTokenStatus \/ st.isExpired

\* C36: for the expected states 'no record for the key' and 'expired token'
\* the validator and the token provider report a status or a result and never
\* raise an exception: a request for a user token made in such a state ends
\* with a failure result.
C36_NoExceptionForExpectedStates ==
  [][\A p \in {1} :
       (req[p].pc = "idle" /\ req'[p].pc = "done" /\ MissingOrExpired(req'[p].key)) =>
          ~Raised(req'[p])]_vars

\* a call of getUserAccessToken is made for key 1, whose status is st
OnDemandStarts ==
  /\ req[1].pc = "idle" /\ req'[1].pc # "idle"
  /\ req'[1].op = "getUserAccessToken"

\* the refresh of an on-demand call ends
OnDemandEnds ==
  /\ req[1].pc = "await" /\ req[1].op = "getUserAccessToken"
  /\ req'[1].pc = "done"

StatusOfKey1 == checkUserTokenStatus(Store, 1, clock).status

OnDemandSteps ==
  /\ (OnDemandStarts /\ needsRefresh(StatusOfKey1)) =>
        \/ /\ req'[1].pc = "await"
           /\ req'[1].call.refresh_token = cache[<<USER_PREFIX, 1>>].data.refresh_token
        \/ /\ Raised(req'[1])
           /\ cache[<<USER_PREFIX, 1>>].data.client_id = 0
           /\ cache'[<<USER_PREFIX, 1>>] = Null
  /\ (OnDemandStarts /\ ~needsRefresh(StatusOfKey1)) =>
        /\ req'[1].pc = "done"
        /\ req'[1].result.success <=> StatusOfKey1.isValid
        /\ req'[1].result.success =>
             req'[1].result.token = cache[<<USER_PREFIX, 1>>].data.access_token
        /\ ~req'[1].result.success => Raised(req'[1])
  /\ OnDemandEnds =>
        /\ req'[1].result.success =>
             /\ issued' = issued + 1
             /\ req'[1].result.token = issued'
             /\ cache'[<<USER_PREFIX, 1>>].data.access_token = issued'
        /\ ~req'[1].result.success => Raised(req'[1])

\* C38: getUserAccessToken for a record that is expired but refreshable
\* attempts a refresh and returns the new access token on success; it
\* refreshes under the condition of the sweep, shouldRefresh or (canRefresh
\* and isExpired), and reports that an authorization is required only when
\* no refresh is possible or the refresh failed.
C38_OnDemandRefreshesLikeSweep == [][OnDemandSteps]_vars

\* a call of getUserAccessToken awaits the refresh of an expired record
C38_Witness ==
  /\ req[1].pc = "await" /\ req[1].op = "getUserAccessToken"
  /\ cache[<<USER_PREFIX, 1>>] # Null
  /\ cache[<<USER_PREFIX, 1>>].data.expires_at < clock
  /\ StatusOfKey1.isExpired /\ StatusOfKey1.canRefresh /\ ~StatusOfKey1.shouldRefresh

\* GET /sse has opened session s in this step
SessionOpened(s) == conn[s] = "new" /\ conn'[s] = "open"

\* what /sse binds: the user key supplied, or the session id itself, and
\* nothing for another session; a binding is never replaced by another
BindingsKept ==
  \A s \in SessionIds :
    /\ SessionOpened(s) =>
         /\ sessionToUserKey'[s] \in UserKeys \cup {SessionAsKey(s)}
         /\ \A o \in SessionIds \ {s} : sessionToUserKey'[o] = sessionToUserKey[o]
    /\ sessionToUserKey[s] # 0 => sessionToUserKey'[s] = sessionToUserKey[s]

\* C37: a message posted to /messages with sessionId s is processed in a scope
\* whose userKey is the one bound to s at /sse (the key supplied, or s
\* itself), never that of another session; without sessionId it is refused
\* with 400, without an active transport with 404, and is not processed.
C37_MessageUnderOwnKey ==
  /\ [][BindingsKept]_vars
  /\ [][(probe' # probe /\ probe'.op = "messages") =>
          /\ probe'.status = 200 <=> (probe'.key # 0 /\ probe'.key \in sse.transports)
          /\ probe'.status = 400 <=> probe'.key = 0
          /\ probe'.status \in {200, 400, 404}
          /\ probe'.status = 200 =>
               /\ probe'.userKey # 0
               /\ probe'.userKey = sessionToUserKey[probe'.key]
               /\ probe'.userKey \in UserKeys \cup {SessionAsKey(probe'.key)}]_vars

\* a message of session 2, opened with user key 1, is processed while
\* session 1, opened without user key, is active too
C37_Witness ==
  /\ probe # Null /\ probe.op = "messages" /\ probe.status = 200
  /\ probe.key = 2 /\ probe.userKey = 1
  /\ 1 \in sse.transports
  /\ sessionToUserKey[1] = SessionAsKey(1)

\* a request of a legacy client has been resolved in this step
LegacyResolved ==
  /\ probe' # probe /\ probe'.op = "middleware"
  /\ ~isUserAuthSupported(probe'.request)

\* the session map changes for session s only by a request that carries s and
\* a user key, or by unbindSessionUserKey(s)
BindingChanges(s) ==
  \/ /\ probe'.op = "middleware"
     /\ probe'.request.sessionId = s /\ probe'.request.userKey # Absent
  \/ probe'.op = "unbindSessionUserKey" /\ probe'.request = s

LegacySteps ==
  /\ (LegacyResolved /\ probe'.request.sessionId # 0
        /\ probe'.request.userKey # Absent) =>
        /\ probe'.key = probe'.request.userKey
        /\ sessionUserKeyMap'[probe'.request.sessionId] = probe'.request.userKey
  /\ (LegacyResolved /\ probe'.request.sessionId # 0
        /\ probe'.request.userKey = Absent) =>
        /\ probe'.key # NoText
        /\ sessionUserKeyMap[probe'.request.sessionId] # NoText =>
             probe'.key = sessionUserKeyMap[probe'.request.sessionId]
        /\ sessionUserKeyMap[probe'.request.sessionId] = NoText =>
             probe'.key = SessionIdText(probe'.request.sessionId)
  /\ \A s \in SessionIds :
        sessionUserKeyMap'[s] # sessionUserKeyMap[s] => BindingChanges(s)

====
